---- MODULE Spec2Model ----
(***************************************************************************)
(* Model of the bank-data pipeline: restore_excel_to_db.py (column         *)
(* mapping, cleaning, in-file de-duplication, upsert into the table        *)
(* master_bank_details_copy) and mergexcel.py (standardise, align, merge   *)
(* and upload the per-bank workbooks).                                     *)
(*                                                                         *)
(* A Python str is the sequence of its characters.  A character of Latin-1 *)
(* (up to U+00FF) is the string of that one character; a character above   *)
(* U+00FF is the string of its name, "U+" and the code point in four or    *)
(* more hexadecimal digits ("U+06F0"), and so is the grave accent          *)
(* ("U+0060"), which no string of the language can hold.  The Unicode data *)
(* are those of version 14.0.0.  A missing cell (pandas NaN, Python None:  *)
(* pd.isna is true of both) is the value NaN.                              *)
(* A data frame is [columns |-> sequence of names, rows |-> sequence of    *)
(* rows], a row being the sequence of its cells in column order.           *)
(***************************************************************************)
EXTENDS Integers, Sequences, FiniteSets, TLC

VARIABLES
  pc,                    \* position in the function that runs
  \* restore_excel_to_db.restore()
  bank_folders,          \* the folders the loop has still to visit
  store,                 \* master_bank_details_copy, rows in physical order
  bank,                  \* the folder of the last loop iteration, << >> before the first
  df,                    \* the frame load_excel_from_s3 returned last
  normalized,            \* map_columns' frame out at line 172, before rows are dropped
  final,                 \* the frame map_columns returned last
  outcome,               \* how the last loop iteration ended
  total_source_rows,
  total_processed_rows,
  total_inserted_rows,
  calls,                 \* history: the calls of insert_rows_safe so far
  committed,             \* history: the batch insert_rows_safe committed last
  repeated,              \* history: that batch is the one committed just before it
  latest,                \* history: per key, the row committed last
  store0,                \* history: the store before the last insert_rows_safe
  \* a call clean_digits(val, limit)
  in_val,
  in_limit,
  cleaned,               \* what clean_digits returned, << "?" >> before the call
  \* mergexcel.merge_and_save_xlsx()
  latest_files,          \* the workbooks the first loop has still to read
  all_dataframes,
  all_columns,
  total_input_rows,
  merged_df,
  total_output_rows,
  uploaded,              \* the workbook put to S3, NoUpload while there is none
  read,                  \* history: the workbooks read without an error, as read
  frames_read            \* history: all_dataframes as the first loop left it

restoreVars ==
  << bank_folders, store, bank, df, normalized, final, outcome, total_source_rows,
     total_processed_rows, total_inserted_rows, calls, committed, repeated,
     latest, store0 >>

helperVars == << in_val, in_limit, cleaned >>

mergeVars ==
  << latest_files, all_dataframes, all_columns, total_input_rows, merged_df,
     total_output_rows, uploaded, read, frames_read >>

vars == << pc, restoreVars, helperVars, mergeVars >>

----------------------------------------------------------------------------
(* Strings *)

NaN == << "<NaN>" >>

\* n in hexadecimal digits
RECURSIVE Hex(_)
Hex(n) ==
  LET HexDigits ==
        <<"0", "1", "2", "3", "4", "5", "6", "7", "8", "9", "A", "B", "C", "D", "E", "F">>
  IN  IF n < 16 THEN HexDigits[n + 1] ELSE Hex(n \div 16) \o HexDigits[(n % 16) + 1]

\* the character of code point n, for n above 255
UChar(n) == "U+" \o (IF n < 4096 THEN "0" ELSE "") \o Hex(n)

\* the number that the hexadecimal digits h write
RECURSIVE HexValue(_)
HexValue(h) ==
  IF Len(h) = 0 THEN 0
  ELSE 16 * HexValue(SubSeq(h, 1, Len(h) - 1))
         + (CHOOSE v \in 0..15 : Hex(v) = SubSeq(h, Len(h), Len(h)))

\* the ranges << first, last >> of code points that a table writes as first-last,
\* each in five hexadecimal digits and followed by a space
RangesOf(table) ==
  {<<HexValue(SubSeq(table, 12 * k - 11, 12 * k - 7)),
     HexValue(SubSeq(table, 12 * k - 5, 12 * k - 1))>> : k \in 1..(Len(table) \div 12)}

\* the characters of a set of code point ranges << first, last >> above 255
CharsOf(ranges) == UNION {{UChar(n) : n \in r[1]..r[2]} : r \in ranges}

\* what str.strip() removes, the characters str.isspace() is true of: in Latin-1
\* space, \t, \n, \r, \f, U+000B, U+001C to U+001F, U+0085 and U+00A0
Whitespace ==
  {"\t", "\n", "", "\f", "\r", "", "", "", "", " ", "", " "}
    \cup {"U+1680", "U+2000", "U+2001", "U+2002", "U+2003", "U+2004", "U+2005", "U+2006",
          "U+2007", "U+2008", "U+2009", "U+200A", "U+2028", "U+2029", "U+202F", "U+205F",
          "U+3000"}

\* the class [0-9] of a pattern
AsciiDigits == {"0", "1", "2", "3", "4", "5", "6", "7", "8", "9"}

\* the class \D of a str pattern takes every character that is no decimal digit
\* (category Nd): the digits are 0 to 9 and, above 255, the ten characters from
\* each digit zero
Digits ==
  LET DecimalZeros ==
        {1632, 1776, 1984, 2406, 2534, 2662, 2790, 2918, 3046, 3174, 3302, 3430, 3558, 3664,
         3792, 3872, 4160, 4240, 6112, 6160, 6470, 6608, 6784, 6800, 6992, 7088, 7232, 7248,
         42528, 43216, 43264, 43472, 43504, 43600, 44016, 65296, 66720, 68912, 69734, 69872,
         69942, 70096, 70384, 70736, 70864, 71248, 71360, 71472, 71904, 72016, 72784, 73040,
         73120, 92768, 92864, 93008, 120782, 120792, 120802, 120812, 120822, 123200, 123632,
         125264, 130032}
  IN  AsciiDigits \cup UNION {{UChar(z + i) : i \in 0..9} : z \in DecimalZeros}

IsDigit(c) == c \in Digits

Range(s) == {s[i] : i \in 1..Len(s)}

Minimum(S) == CHOOSE x \in S : \A y \in S : x <= y

Maximum(S) == CHOOSE x \in S : \A y \in S : x >= y

\* s[:limit] for limit >= 0
Prefix(s, limit) == SubSeq(s, 1, IF limit < Len(s) THEN limit ELSE Len(s))

RECURSIVE lstrip(_)
lstrip(s) == IF s # << >> /\ Head(s) \in Whitespace THEN lstrip(Tail(s)) ELSE s

RECURSIVE rstrip(_)
rstrip(s) ==
  IF s # << >> /\ s[Len(s)] \in Whitespace THEN rstrip(SubSeq(s, 1, Len(s) - 1)) ELSE s

\* str.strip()
strip(s) == rstrip(lstrip(s))

\* str.replace(old, new) for one-character old and new
replace(s, old, new) == [i \in 1..Len(s) |-> IF s[i] = old THEN new ELSE s[i]]

\* the class [A-Z] and the class [a-z] of a pattern, letter by letter
UpperLetters == <<"A", "B", "C", "D", "E", "F", "G", "H", "I", "J", "K", "L", "M", "N", "O", "P", "Q", "R", "S", "T", "U", "V", "W", "X", "Y", "Z">>

LowerLetters == <<"a", "b", "c", "d", "e", "f", "g", "h", "i", "j", "k", "l", "m", "n", "o", "p", "q", "r", "s", "t", "u", "v", "w", "x", "y", "z">>

\* the upper-case letters of Latin-1 above ASCII, and their lower-case letters
Latin1Upper ==
  <<"À", "Á", "Â", "Ã", "Ä", "Å", "Æ", "Ç", "È", "É", "Ê", "Ë", "Ì", "Í", "Î", "Ï",
    "Ð", "Ñ", "Ò", "Ó", "Ô", "Õ", "Ö", "Ø", "Ù", "Ú", "Û", "Ü", "Ý", "Þ">>

Latin1Lower ==
  <<"à", "á", "â", "ã", "ä", "å", "æ", "ç", "è", "é", "ê", "ë", "ì", "í", "î", "ï",
    "ð", "ñ", "ò", "ó", "ô", "õ", "ö", "ø", "ù", "ú", "û", "ü", "ý", "þ">>

\* every character c that c.lower() changes, with c.lower(): the letters of
\* Latin-1, the runs above it, where first-last/step>to sends the code points
\* first, first + step, ... up to last to the code points to, to + step, ...,
\* and the characters that go to Latin-1 or to two characters
LowerPairs ==
  LET runs ==
        "00100-0012E/2>00101 00132-00136/2>00133 00139-00147/2>0013A 0014A-00176/2>0014B " \o
        "00179-0017D/2>0017A 00181-00181/1>00253 00182-00184/2>00183 00186-00186/1>00254 " \o
        "00187-00187/1>00188 00189-0018A/1>00256 0018B-0018B/1>0018C 0018E-0018E/1>001DD " \o
        "0018F-0018F/1>00259 00190-00190/1>0025B 00191-00191/1>00192 00193-00193/1>00260 " \o
        "00194-00194/1>00263 00196-00196/1>00269 00197-00197/1>00268 00198-00198/1>00199 " \o
        "0019C-0019C/1>0026F 0019D-0019D/1>00272 0019F-0019F/1>00275 001A0-001A4/2>001A1 " \o
        "001A6-001A6/1>00280 001A7-001A7/1>001A8 001A9-001A9/1>00283 001AC-001AC/1>001AD " \o
        "001AE-001AE/1>00288 001AF-001AF/1>001B0 001B1-001B2/1>0028A 001B3-001B5/2>001B4 " \o
        "001B7-001B7/1>00292 001B8-001B8/1>001B9 001BC-001BC/1>001BD 001C4-001C4/1>001C6 " \o
        "001C5-001C5/1>001C6 001C7-001C7/1>001C9 001C8-001C8/1>001C9 001CA-001CA/1>001CC " \o
        "001CB-001DB/2>001CC 001DE-001EE/2>001DF 001F1-001F1/1>001F3 001F2-001F4/2>001F3 " \o
        "001F6-001F6/1>00195 001F7-001F7/1>001BF 001F8-0021E/2>001F9 00220-00220/1>0019E " \o
        "00222-00232/2>00223 0023A-0023A/1>02C65 0023B-0023B/1>0023C 0023D-0023D/1>0019A " \o
        "0023E-0023E/1>02C66 00241-00241/1>00242 00243-00243/1>00180 00244-00244/1>00289 " \o
        "00245-00245/1>0028C 00246-0024E/2>00247 00370-00372/2>00371 00376-00376/1>00377 " \o
        "0037F-0037F/1>003F3 00386-00386/1>003AC 00388-0038A/1>003AD 0038C-0038C/1>003CC " \o
        "0038E-0038F/1>003CD 00391-003A1/1>003B1 003A3-003AB/1>003C3 003CF-003CF/1>003D7 " \o
        "003D8-003EE/2>003D9 003F4-003F4/1>003B8 003F7-003F7/1>003F8 003F9-003F9/1>003F2 " \o
        "003FA-003FA/1>003FB 003FD-003FF/1>0037B 00400-0040F/1>00450 00410-0042F/1>00430 " \o
        "00460-00480/2>00461 0048A-004BE/2>0048B 004C0-004C0/1>004CF 004C1-004CD/2>004C2 " \o
        "004D0-0052E/2>004D1 00531-00556/1>00561 010A0-010C5/1>02D00 010C7-010C7/1>02D27 " \o
        "010CD-010CD/1>02D2D 013A0-013EF/1>0AB70 013F0-013F5/1>013F8 01C90-01CBA/1>010D0 " \o
        "01CBD-01CBF/1>010FD 01E00-01E94/2>01E01 01EA0-01EFE/2>01EA1 01F08-01F0F/1>01F00 " \o
        "01F18-01F1D/1>01F10 01F28-01F2F/1>01F20 01F38-01F3F/1>01F30 01F48-01F4D/1>01F40 " \o
        "01F59-01F5F/2>01F51 01F68-01F6F/1>01F60 01F88-01F8F/1>01F80 01F98-01F9F/1>01F90 " \o
        "01FA8-01FAF/1>01FA0 01FB8-01FB9/1>01FB0 01FBA-01FBB/1>01F70 01FBC-01FBC/1>01FB3 " \o
        "01FC8-01FCB/1>01F72 01FCC-01FCC/1>01FC3 01FD8-01FD9/1>01FD0 01FDA-01FDB/1>01F76 " \o
        "01FE8-01FE9/1>01FE0 01FEA-01FEB/1>01F7A 01FEC-01FEC/1>01FE5 01FF8-01FF9/1>01F78 " \o
        "01FFA-01FFB/1>01F7C 01FFC-01FFC/1>01FF3 02126-02126/1>003C9 02132-02132/1>0214E " \o
        "02160-0216F/1>02170 02183-02183/1>02184 024B6-024CF/1>024D0 02C00-02C2F/1>02C30 " \o
        "02C60-02C60/1>02C61 02C62-02C62/1>0026B 02C63-02C63/1>01D7D 02C64-02C64/1>0027D " \o
        "02C67-02C6B/2>02C68 02C6D-02C6D/1>00251 02C6E-02C6E/1>00271 02C6F-02C6F/1>00250 " \o
        "02C70-02C70/1>00252 02C72-02C72/1>02C73 02C75-02C75/1>02C76 02C7E-02C7F/1>0023F " \o
        "02C80-02CE2/2>02C81 02CEB-02CED/2>02CEC 02CF2-02CF2/1>02CF3 0A640-0A66C/2>0A641 " \o
        "0A680-0A69A/2>0A681 0A722-0A72E/2>0A723 0A732-0A76E/2>0A733 0A779-0A77B/2>0A77A " \o
        "0A77D-0A77D/1>01D79 0A77E-0A786/2>0A77F 0A78B-0A78B/1>0A78C 0A78D-0A78D/1>00265 " \o
        "0A790-0A792/2>0A791 0A796-0A7A8/2>0A797 0A7AA-0A7AA/1>00266 0A7AB-0A7AB/1>0025C " \o
        "0A7AC-0A7AC/1>00261 0A7AD-0A7AD/1>0026C 0A7AE-0A7AE/1>0026A 0A7B0-0A7B0/1>0029E " \o
        "0A7B1-0A7B1/1>00287 0A7B2-0A7B2/1>0029D 0A7B3-0A7B3/1>0AB53 0A7B4-0A7C2/2>0A7B5 " \o
        "0A7C4-0A7C4/1>0A794 0A7C5-0A7C5/1>00282 0A7C6-0A7C6/1>01D8E 0A7C7-0A7C9/2>0A7C8 " \o
        "0A7D0-0A7D0/1>0A7D1 0A7D6-0A7D8/2>0A7D7 0A7F5-0A7F5/1>0A7F6 0FF21-0FF3A/1>0FF41 " \o
        "10400-10427/1>10428 104B0-104D3/1>104D8 10570-1057A/1>10597 1057C-1058A/1>105A3 " \o
        "1058C-10592/1>105B3 10594-10595/1>105BB 10C80-10CB2/1>10CC0 118A0-118BF/1>118C0 " \o
        "16E40-16E5F/1>16E60 1E900-1E921/1>1E922 "
      Run(k) == SubSeq(runs, 20 * k - 19, 20 * k)
      Steps(r) == 0..((HexValue(SubSeq(r, 7, 11)) - HexValue(SubSeq(r, 1, 5)))
                        \div HexValue(SubSeq(r, 13, 13)))
      PairsOf(r) ==
        {<<UChar(HexValue(SubSeq(r, 1, 5)) + i * HexValue(SubSeq(r, 13, 13))),
           <<UChar(HexValue(SubSeq(r, 15, 19)) + i * HexValue(SubSeq(r, 13, 13)))>>>> :
             i \in Steps(r)}
  IN  {<<UpperLetters[i], <<LowerLetters[i]>>>> : i \in 1..Len(UpperLetters)}
        \cup {<<Latin1Upper[i], <<Latin1Lower[i]>>>> : i \in 1..Len(Latin1Upper)}
        \cup UNION {PairsOf(Run(k)) : k \in 1..(Len(runs) \div 20)}
        \cup {<<"U+0130", <<"i", "U+0307">>>>,
              <<"U+0178", <<"ÿ">>>>,
              <<"U+1E9E", <<"ß">>>>,
              <<"U+212A", <<"k">>>>,
              <<"U+212B", <<"å">>>>}

LowerOf ==
  [c \in {p[1] : p \in LowerPairs} |-> (CHOOSE p \in LowerPairs : p[1] = c)[2]]

\* c.lower() for a str c of one character, capital sigma apart
LowerChar(c) == IF c \in DOMAIN LowerOf THEN LowerOf[c] ELSE << c >>

\* the case-ignorable characters: those of Latin-1, and the ranges above it
CaseIgnorable ==
  {"'", ".", ":", "^", "U+0060", "¨", "­", "¯", "´", "·", "¸"}
    \cup CharsOf(RangesOf(
      "002B0-0036F 00374-00375 0037A-0037A 00384-00385 00387-00387 00483-00489 00559-00559 " \o
      "0055F-0055F 00591-005BD 005BF-005BF 005C1-005C2 005C4-005C5 005C7-005C7 005F4-005F4 " \o
      "00600-00605 00610-0061A 0061C-0061C 00640-00640 0064B-0065F 00670-00670 006D6-006DD " \o
      "006DF-006E8 006EA-006ED 0070F-0070F 00711-00711 00730-0074A 007A6-007B0 007EB-007F5 " \o
      "007FA-007FA 007FD-007FD 00816-0082D 00859-0085B 00888-00888 00890-00891 00898-0089F " \o
      "008C9-00902 0093A-0093A 0093C-0093C 00941-00948 0094D-0094D 00951-00957 00962-00963 " \o
      "00971-00971 00981-00981 009BC-009BC 009C1-009C4 009CD-009CD 009E2-009E3 009FE-009FE " \o
      "00A01-00A02 00A3C-00A3C 00A41-00A42 00A47-00A48 00A4B-00A4D 00A51-00A51 00A70-00A71 " \o
      "00A75-00A75 00A81-00A82 00ABC-00ABC 00AC1-00AC5 00AC7-00AC8 00ACD-00ACD 00AE2-00AE3 " \o
      "00AFA-00AFF 00B01-00B01 00B3C-00B3C 00B3F-00B3F 00B41-00B44 00B4D-00B4D 00B55-00B56 " \o
      "00B62-00B63 00B82-00B82 00BC0-00BC0 00BCD-00BCD 00C00-00C00 00C04-00C04 00C3C-00C3C " \o
      "00C3E-00C40 00C46-00C48 00C4A-00C4D 00C55-00C56 00C62-00C63 00C81-00C81 00CBC-00CBC " \o
      "00CBF-00CBF 00CC6-00CC6 00CCC-00CCD 00CE2-00CE3 00D00-00D01 00D3B-00D3C 00D41-00D44 " \o
      "00D4D-00D4D 00D62-00D63 00D81-00D81 00DCA-00DCA 00DD2-00DD4 00DD6-00DD6 00E31-00E31 " \o
      "00E34-00E3A 00E46-00E4E 00EB1-00EB1 00EB4-00EBC 00EC6-00EC6 00EC8-00ECD 00F18-00F19 " \o
      "00F35-00F35 00F37-00F37 00F39-00F39 00F71-00F7E 00F80-00F84 00F86-00F87 00F8D-00F97 " \o
      "00F99-00FBC 00FC6-00FC6 0102D-01030 01032-01037 01039-0103A 0103D-0103E 01058-01059 " \o
      "0105E-01060 01071-01074 01082-01082 01085-01086 0108D-0108D 0109D-0109D 010FC-010FC " \o
      "0135D-0135F 01712-01714 01732-01733 01752-01753 01772-01773 017B4-017B5 017B7-017BD " \o
      "017C6-017C6 017C9-017D3 017D7-017D7 017DD-017DD 0180B-0180F 01843-01843 01885-01886 " \o
      "018A9-018A9 01920-01922 01927-01928 01932-01932 01939-0193B 01A17-01A18 01A1B-01A1B " \o
      "01A56-01A56 01A58-01A5E 01A60-01A60 01A62-01A62 01A65-01A6C 01A73-01A7C 01A7F-01A7F " \o
      "01AA7-01AA7 01AB0-01ACE 01B00-01B03 01B34-01B34 01B36-01B3A 01B3C-01B3C 01B42-01B42 " \o
      "01B6B-01B73 01B80-01B81 01BA2-01BA5 01BA8-01BA9 01BAB-01BAD 01BE6-01BE6 01BE8-01BE9 " \o
      "01BED-01BED 01BEF-01BF1 01C2C-01C33 01C36-01C37 01C78-01C7D 01CD0-01CD2 01CD4-01CE0 " \o
      "01CE2-01CE8 01CED-01CED 01CF4-01CF4 01CF8-01CF9 01D2C-01D6A 01D78-01D78 01D9B-01DFF " \o
      "01FBD-01FBD 01FBF-01FC1 01FCD-01FCF 01FDD-01FDF 01FED-01FEF 01FFD-01FFE 0200B-0200F " \o
      "02018-02019 02024-02024 02027-02027 0202A-0202E 02060-02064 02066-0206F 02071-02071 " \o
      "0207F-0207F 02090-0209C 020D0-020F0 02C7C-02C7D 02CEF-02CF1 02D6F-02D6F 02D7F-02D7F " \o
      "02DE0-02DFF 02E2F-02E2F 03005-03005 0302A-0302D 03031-03035 0303B-0303B 03099-0309E " \o
      "030FC-030FE 0A015-0A015 0A4F8-0A4FD 0A60C-0A60C 0A66F-0A672 0A674-0A67D 0A67F-0A67F " \o
      "0A69C-0A69F 0A6F0-0A6F1 0A700-0A721 0A770-0A770 0A788-0A78A 0A7F2-0A7F4 0A7F8-0A7F9 " \o
      "0A802-0A802 0A806-0A806 0A80B-0A80B 0A825-0A826 0A82C-0A82C 0A8C4-0A8C5 0A8E0-0A8F1 " \o
      "0A8FF-0A8FF 0A926-0A92D 0A947-0A951 0A980-0A982 0A9B3-0A9B3 0A9B6-0A9B9 0A9BC-0A9BD " \o
      "0A9CF-0A9CF 0A9E5-0A9E6 0AA29-0AA2E 0AA31-0AA32 0AA35-0AA36 0AA43-0AA43 0AA4C-0AA4C " \o
      "0AA70-0AA70 0AA7C-0AA7C 0AAB0-0AAB0 0AAB2-0AAB4 0AAB7-0AAB8 0AABE-0AABF 0AAC1-0AAC1 " \o
      "0AADD-0AADD 0AAEC-0AAED 0AAF3-0AAF4 0AAF6-0AAF6 0AB5B-0AB5F 0AB69-0AB6B 0ABE5-0ABE5 " \o
      "0ABE8-0ABE8 0ABED-0ABED 0FB1E-0FB1E 0FBB2-0FBC2 0FE00-0FE0F 0FE13-0FE13 0FE20-0FE2F " \o
      "0FE52-0FE52 0FE55-0FE55 0FEFF-0FEFF 0FF07-0FF07 0FF0E-0FF0E 0FF1A-0FF1A 0FF3E-0FF3E " \o
      "0FF40-0FF40 0FF70-0FF70 0FF9E-0FF9F 0FFE3-0FFE3 0FFF9-0FFFB 101FD-101FD 102E0-102E0 " \o
      "10376-1037A 10780-10785 10787-107B0 107B2-107BA 10A01-10A03 10A05-10A06 10A0C-10A0F " \o
      "10A38-10A3A 10A3F-10A3F 10AE5-10AE6 10D24-10D27 10EAB-10EAC 10F46-10F50 10F82-10F85 " \o
      "11001-11001 11038-11046 11070-11070 11073-11074 1107F-11081 110B3-110B6 110B9-110BA " \o
      "110BD-110BD 110C2-110C2 110CD-110CD 11100-11102 11127-1112B 1112D-11134 11173-11173 " \o
      "11180-11181 111B6-111BE 111C9-111CC 111CF-111CF 1122F-11231 11234-11234 11236-11237 " \o
      "1123E-1123E 112DF-112DF 112E3-112EA 11300-11301 1133B-1133C 11340-11340 11366-1136C " \o
      "11370-11374 11438-1143F 11442-11444 11446-11446 1145E-1145E 114B3-114B8 114BA-114BA " \o
      "114BF-114C0 114C2-114C3 115B2-115B5 115BC-115BD 115BF-115C0 115DC-115DD 11633-1163A " \o
      "1163D-1163D 1163F-11640 116AB-116AB 116AD-116AD 116B0-116B5 116B7-116B7 1171D-1171F " \o
      "11722-11725 11727-1172B 1182F-11837 11839-1183A 1193B-1193C 1193E-1193E 11943-11943 " \o
      "119D4-119D7 119DA-119DB 119E0-119E0 11A01-11A0A 11A33-11A38 11A3B-11A3E 11A47-11A47 " \o
      "11A51-11A56 11A59-11A5B 11A8A-11A96 11A98-11A99 11C30-11C36 11C38-11C3D 11C3F-11C3F " \o
      "11C92-11CA7 11CAA-11CB0 11CB2-11CB3 11CB5-11CB6 11D31-11D36 11D3A-11D3A 11D3C-11D3D " \o
      "11D3F-11D45 11D47-11D47 11D90-11D91 11D95-11D95 11D97-11D97 11EF3-11EF4 13430-13438 " \o
      "16AF0-16AF4 16B30-16B36 16B40-16B43 16F4F-16F4F 16F8F-16F9F 16FE0-16FE1 16FE3-16FE4 " \o
      "1AFF0-1AFF3 1AFF5-1AFFB 1AFFD-1AFFE 1BC9D-1BC9E 1BCA0-1BCA3 1CF00-1CF2D 1CF30-1CF46 " \o
      "1D167-1D169 1D173-1D182 1D185-1D18B 1D1AA-1D1AD 1D242-1D244 1DA00-1DA36 1DA3B-1DA6C " \o
      "1DA75-1DA75 1DA84-1DA84 1DA9B-1DA9F 1DAA1-1DAAF 1E000-1E006 1E008-1E018 1E01B-1E021 " \o
      "1E023-1E024 1E026-1E02A 1E130-1E13D 1E2AE-1E2AE 1E2EC-1E2EF 1E8D0-1E8D6 1E944-1E94B " \o
      "1F3FB-1F3FF E0001-E0001 E0020-E007F E0100-E01EF "))

\* the cased characters that are not case-ignorable
Cased ==
  Range(UpperLetters) \cup Range(LowerLetters) \cup Range(Latin1Upper) \cup Range(Latin1Lower)
    \cup {"ª", "µ", "º", "ß", "ÿ"}
    \cup CharsOf(RangesOf(
      "00100-001BA 001BC-001BF 001C4-00293 00295-002AF 00370-00373 00376-00377 0037B-0037D " \o
      "0037F-0037F 00386-00386 00388-0038A 0038C-0038C 0038E-003A1 003A3-003F5 003F7-00481 " \o
      "0048A-0052F 00531-00556 00560-00588 010A0-010C5 010C7-010C7 010CD-010CD 010D0-010FA " \o
      "010FD-010FF 013A0-013F5 013F8-013FD 01C80-01C88 01C90-01CBA 01CBD-01CBF 01D00-01D2B " \o
      "01D6B-01D77 01D79-01D9A 01E00-01F15 01F18-01F1D 01F20-01F45 01F48-01F4D 01F50-01F57 " \o
      "01F59-01F59 01F5B-01F5B 01F5D-01F5D 01F5F-01F7D 01F80-01FB4 01FB6-01FBC 01FBE-01FBE " \o
      "01FC2-01FC4 01FC6-01FCC 01FD0-01FD3 01FD6-01FDB 01FE0-01FEC 01FF2-01FF4 01FF6-01FFC " \o
      "02102-02102 02107-02107 0210A-02113 02115-02115 02119-0211D 02124-02124 02126-02126 " \o
      "02128-02128 0212A-0212D 0212F-02134 02139-02139 0213C-0213F 02145-02149 0214E-0214E " \o
      "02160-0217F 02183-02184 024B6-024E9 02C00-02C7B 02C7E-02CE4 02CEB-02CEE 02CF2-02CF3 " \o
      "02D00-02D25 02D27-02D27 02D2D-02D2D 0A640-0A66D 0A680-0A69B 0A722-0A76F 0A771-0A787 " \o
      "0A78B-0A78E 0A790-0A7CA 0A7D0-0A7D1 0A7D3-0A7D3 0A7D5-0A7D9 0A7F5-0A7F6 0A7FA-0A7FA " \o
      "0AB30-0AB5A 0AB60-0AB68 0AB70-0ABBF 0FB00-0FB06 0FB13-0FB17 0FF21-0FF3A 0FF41-0FF5A " \o
      "10400-1044F 104B0-104D3 104D8-104FB 10570-1057A 1057C-1058A 1058C-10592 10594-10595 " \o
      "10597-105A1 105A3-105B1 105B3-105B9 105BB-105BC 10C80-10CB2 10CC0-10CF2 118A0-118DF " \o
      "16E40-16E7F 1D400-1D454 1D456-1D49C 1D49E-1D49F 1D4A2-1D4A2 1D4A5-1D4A6 1D4A9-1D4AC " \o
      "1D4AE-1D4B9 1D4BB-1D4BB 1D4BD-1D4C3 1D4C5-1D505 1D507-1D50A 1D50D-1D514 1D516-1D51C " \o
      "1D51E-1D539 1D53B-1D53E 1D540-1D544 1D546-1D546 1D54A-1D550 1D552-1D6A5 1D6A8-1D6C0 " \o
      "1D6C2-1D6DA 1D6DC-1D6FA 1D6FC-1D714 1D716-1D734 1D736-1D74E 1D750-1D76E 1D770-1D788 " \o
      "1D78A-1D7A8 1D7AA-1D7C2 1D7C4-1D7CB 1DF00-1DF09 1DF0B-1DF1E 1E900-1E943 1F130-1F149 " \o
      "1F150-1F169 1F170-1F189 "))

\* capital sigma at s[i] is final: the nearest character before it that is not
\* case-ignorable is cased, and the nearest such character after it, if any, is not
FinalSigma(s, i) ==
  LET before == {j \in 1..(i - 1) : s[j] \notin CaseIgnorable}
      after == {j \in (i + 1)..Len(s) : s[j] \notin CaseIgnorable}
  IN  /\ before # {}
      /\ s[Maximum(before)] \in Cased
      /\ after = {} \/ s[Minimum(after)] \notin Cased

RECURSIVE LowerFrom(_, _)
LowerFrom(s, i) ==
  IF i > Len(s) THEN << >>
  ELSE (IF s[i] = UChar(931)
          THEN << IF FinalSigma(s, i) THEN UChar(962) ELSE UChar(963) >>
          ELSE LowerChar(s[i])) \o LowerFrom(s, i + 1)

\* str.lower()
lower(s) == LowerFrom(s, 1)

----------------------------------------------------------------------------
(* restore_excel_to_db.py: configuration *)

\* the column names of lines 42-52, and remarks, a column that is no alias, each as
\* its sequence of characters
ColumnNames ==
  [bank_name |-> <<"b", "a", "n", "k", "_", "n", "a", "m", "e">>,
   bank |-> <<"b", "a", "n", "k">>,
   bankname |-> <<"b", "a", "n", "k", "n", "a", "m", "e">>,
   branch_name |-> <<"b", "r", "a", "n", "c", "h", "_", "n", "a", "m", "e">>,
   branchname |-> <<"b", "r", "a", "n", "c", "h", "n", "a", "m", "e">>,
   branch |-> <<"b", "r", "a", "n", "c", "h">>,
   branchnm |-> <<"b", "r", "a", "n", "c", "h", "n", "m">>,
   ifsc_code |-> <<"i", "f", "s", "c", "_", "c", "o", "d", "e">>,
   ifsc |-> <<"i", "f", "s", "c">>,
   ifscode |-> <<"i", "f", "s", "c", "o", "d", "e">>,
   address |-> <<"a", "d", "d", "r", "e", "s", "s">>,
   branchaddress |-> <<"b", "r", "a", "n", "c", "h", "a", "d", "d", "r", "e", "s", "s">>,
   city1 |-> <<"c", "i", "t", "y", "1">>,
   city_1 |-> <<"c", "i", "t", "y", "_", "1">>,
   city |-> <<"c", "i", "t", "y">>,
   district |-> <<"d", "i", "s", "t", "r", "i", "c", "t">>,
   place |-> <<"p", "l", "a", "c", "e">>,
   location |-> <<"l", "o", "c", "a", "t", "i", "o", "n">>,
   town |-> <<"t", "o", "w", "n">>,
   city2 |-> <<"c", "i", "t", "y", "2">>,
   city_2 |-> <<"c", "i", "t", "y", "_", "2">>,
   centre |-> <<"c", "e", "n", "t", "r", "e">>,
   center |-> <<"c", "e", "n", "t", "e", "r">>,
   state |-> <<"s", "t", "a", "t", "e">>,
   std_code |-> <<"s", "t", "d", "_", "c", "o", "d", "e">>,
   stdcode |-> <<"s", "t", "d", "c", "o", "d", "e">>,
   std |-> <<"s", "t", "d">>,
   areacode |-> <<"a", "r", "e", "a", "c", "o", "d", "e">>,
   phone |-> <<"p", "h", "o", "n", "e">>,
   phone_no |-> <<"p", "h", "o", "n", "e", "_", "n", "o">>,
   phoneno |-> <<"p", "h", "o", "n", "e", "n", "o">>,
   telephone |-> <<"t", "e", "l", "e", "p", "h", "o", "n", "e">>,
   contact |-> <<"c", "o", "n", "t", "a", "c", "t">>,
   remarks |-> <<"r", "e", "m", "a", "r", "k", "s">>]

COLUMN_PRIORITY ==
  LET n == ColumnNames
  IN
  [ bank_name   |-> << n.bank_name, n.bank, n.bankname >>,
    branch_name |-> << n.branch_name, n.branchname, n.branch, n.branchnm >>,
    ifsc_code   |-> << n.ifsc_code, n.ifsc, n.ifscode >>,
    address     |-> << n.address, n.branchaddress >>,
    city1       |-> << n.city1, n.city_1, n.city, n.district, n.place, n.location, n.town >>,
    city2       |-> << n.city2, n.city_2, n.centre, n.center >>,
    state       |-> << n.state >>,
    std_code    |-> << n.std_code, n.stdcode, n.std, n.areacode >>,
    phone       |-> << n.phone, n.phone_no, n.phoneno, n.telephone, n.contact >> ]

LIMITS ==
  [ bank_name |-> 100, branch_name |-> 100, ifsc_code |-> 20, address |-> 100,
    city1 |-> 50, city2 |-> 50, state |-> 50, std_code |-> 50, phone |-> 20 ]

DB_COLUMNS ==
  << "bank_name", "branch_name", "ifsc_code", "address", "city1", "city2",
     "state", "std_code", "phone" >>

MAIN_BRANCH == << "M", "A", "I", "N", " ", "B", "R", "A", "N", "C", "H" >>

----------------------------------------------------------------------------
(* restore_excel_to_db.py: helpers *)

\* a variant of clean_digits that cuts before it removes the non-digits
clean_digits_CutFirst(val, limit) ==
  IF val = NaN THEN << >> ELSE SelectSeq(Prefix(val, limit), IsDigit)

clean_digits(val, limit) ==
  IF val = NaN THEN << >> ELSE Prefix(SelectSeq(val, IsDigit), limit)

\* a variant of truncate that returns the value as it is
truncate_AsIs(val, limit) == val

truncate(val, limit) ==
  IF val = NaN THEN << >> ELSE Prefix(strip(val), limit)

----------------------------------------------------------------------------
(* restore_excel_to_db.py: load_excel_from_s3 *)

\* lines 37-39: strip, lower, every space to "_", then every character that is not
\* of [a-z0-9_] dropped
normalize(col) ==
  LET Kept(c) == c \in Range(LowerLetters) \cup AsciiDigits \cup {"_"}
  IN  SelectSeq(replace(lower(strip(col)), " ", "_"), Kept)

\* lines 120-125: the workbook as read, its column names normalized
load_excel_from_s3(raw) ==
  [columns |-> [i \in 1..Len(raw.columns) |-> normalize(raw.columns[i])],
   rows |-> raw.rows]

----------------------------------------------------------------------------
(* restore_excel_to_db.py: map_columns *)

\* df[name]: the position of the column called name, for a name that one column has
ColIndex(columns, name) == CHOOSE i \in 1..Len(columns) : columns[i] = name

\* a variant of ResolveColumn that takes the first column of the frame, in the
\* frame's order, that is an alias of target
ResolveColumn_FileOrder(columns, target) ==
  LET hits == {c \in 1..Len(columns) : columns[c] \in Range(COLUMN_PRIORITY[target])}
  IN  IF hits = {} THEN << >> ELSE << columns[Minimum(hits)] >>

\* lines 136-139: the first alias of target, in priority order, that is a column
\* of the frame; << >> when none is
ResolveColumn(columns, target) ==
  LET sources == COLUMN_PRIORITY[target]
      hits == {i \in 1..Len(sources) : sources[i] \in Range(columns)}
  IN  IF hits = {} THEN << >> ELSE << sources[Minimum(hits)] >>

\* lines 132-141: one row per row of d, a cell (or None) per target
MapTargets(d) ==
  [r \in 1..Len(d.rows) |->
     [t \in Range(DB_COLUMNS) |->
        LET src == ResolveColumn(d.columns, t)
        IN  IF src = << >> THEN NaN
            ELSE d.rows[r][ColIndex(d.columns, src[1])]]]

\* lines 144-145: the folder's name for every row, when no row has a bank name
BankNameFallback(out, bank_folder_name) ==
  IF \/ \A r \in 1..Len(out) : out[r].bank_name = NaN
     \/ \A r \in 1..Len(out) :
           strip(IF out[r].bank_name = NaN THEN << >> ELSE out[r].bank_name) = << >>
  THEN [r \in 1..Len(out) |->
          [out[r] EXCEPT !.bank_name = strip(replace(bank_folder_name, "_", " "))]]
  ELSE out

\* lines 151-155
CleanRow(row) ==
  [t \in Range(DB_COLUMNS) |->
     IF t \in {"phone", "std_code"}
     THEN clean_digits(row[t], LIMITS[t])
     ELSE truncate(row[t], LIMITS[t])]

\* lines 159-171, for one row
FixBranchName(row) ==
  LET b0 == IF row.branch_name = NaN \/ strip(row.branch_name) = << >>
            THEN NaN ELSE row.branch_name
      b1 == IF b0 = NaN THEN row.address ELSE b0
      b2 == IF b1 = NaN THEN row.city1 ELSE b1
      b3 == IF b2 = NaN THEN MAIN_BRANCH ELSE b2
  IN  [row EXCEPT !.branch_name = b3]

\* a variant of the normalization that leaves out the rows without an ifsc_code
NormalizeRows_SkipsNoIfsc(d, bank_folder_name) ==
  LET out == BankNameFallback(MapTargets(d), bank_folder_name)
      all == [r \in 1..Len(out) |-> FixBranchName(CleanRow(out[r]))]
      Kept(row) == row.ifsc_code # NaN /\ row.ifsc_code # << >>
  IN  SelectSeq(all, Kept)

\* lines 132-171: the canonical record of every row, before any row is dropped
NormalizeRows(d, bank_folder_name) ==
  LET out == BankNameFallback(MapTargets(d), bank_folder_name)
  IN  [r \in 1..Len(out) |-> FixBranchName(CleanRow(out[r]))]

\* lines 175-178
HasIfsc(row) == row.ifsc_code # NaN /\ row.ifsc_code # << >>

DropInvalid(out) == SelectSeq(out, HasIfsc)

Key(row) == << row.ifsc_code, row.branch_name >>

\* line 181: DataFrame.drop_duplicates(subset=["ifsc_code", "branch_name"]): a row
\* is dropped when an earlier row of the frame has its key (keep="first")
RECURSIVE DedupFrom(_, _, _)
DedupFrom(out, i, seen) ==
  IF i > Len(out) THEN << >>
  ELSE IF Key(out[i]) \in seen THEN DedupFrom(out, i + 1, seen)
  ELSE << out[i] >> \o DedupFrom(out, i + 1, seen \cup {Key(out[i])})

\* a variant of drop_duplicates that keeps the last row of every key (keep="last")
drop_duplicates_KeepLast(out) ==
  LET last == {i \in 1..Len(out) : \A j \in (i + 1)..Len(out) : Key(out[j]) # Key(out[i])}
  IN  [k \in 1..Cardinality(last) |->
         out[CHOOSE i \in last : Cardinality({j \in last : j <= i}) = k]]

drop_duplicates(out) == DedupFrom(out, 1, {})

map_columns(d, bank_folder_name) ==
  drop_duplicates(DropInvalid(NormalizeRows(d, bank_folder_name)))

\* line 138: out[target] = df[src] raises when two columns of the frame have the
\* name src, for df[src] is then a frame of two columns and not one column
map_columns_raises(d) ==
  \E t \in Range(DB_COLUMNS) :
    LET src == ResolveColumn(d.columns, t)
    IN  /\ src # << >>
        /\ Cardinality({i \in 1..Len(d.columns) : d.columns[i] = src[1]}) > 1

----------------------------------------------------------------------------
(* restore_excel_to_db.py: the table master_bank_details_copy *)

SameKey(a, b) == a.ifsc_code = b.ifsc_code /\ a.branch_name = b.branch_name

\* the stored row a stops the insert of row: the unique index takes NULL keys as
\* distinct
Conflicts(a, row) == SameKey(a, row) /\ row.ifsc_code # NaN /\ row.branch_name # NaN

\* a variant of Upsert without the ON CONFLICT clause, on a table without the index
Upsert_AlwaysInserts(st, row) == Append(st, row)

\* a variant of Upsert whose SET list leaves out phone
Upsert_KeepsPhone(st, row) ==
  IF \E i \in 1..Len(st) : Conflicts(st[i], row)
  THEN [i \in 1..Len(st) |->
          IF Conflicts(st[i], row)
          THEN [st[i] EXCEPT !.bank_name = row.bank_name,
                             !.address   = row.address,
                             !.city1     = row.city1,
                             !.city2     = row.city2,
                             !.state     = row.state,
                             !.std_code  = row.std_code]
          ELSE st[i]]
  ELSE Append(st, row)

\* lines 195-217: INSERT ... ON CONFLICT (ifsc_code, branch_name) DO UPDATE SET ...
Upsert(st, row) ==
  IF \E i \in 1..Len(st) : Conflicts(st[i], row)
  THEN [i \in 1..Len(st) |->
          IF Conflicts(st[i], row)
          THEN [st[i] EXCEPT !.bank_name = row.bank_name,
                             !.address   = row.address,
                             !.city1     = row.city1,
                             !.city2     = row.city2,
                             !.state     = row.state,
                             !.std_code  = row.std_code,
                             !.phone     = row.phone]
          ELSE st[i]]
  ELSE Append(st, row)

\* line 219: execute_batch runs the statement once per row, in order, in the
\* connection's one transaction
RECURSIVE execute_batch(_, _)
execute_batch(st, rows) ==
  IF rows = << >> THEN st ELSE execute_batch(Upsert(st, Head(rows)), Tail(rows))

\* a variant of insert_rows_safe_count that counts one more than the rows
insert_rows_safe_count_OneMore(rows) == Len(rows) + 1

\* lines 188-225: what insert_rows_safe returns, and the table after its commit
insert_rows_safe_count(rows) == Len(rows)

insert_rows_safe_store(st, rows) == IF rows = << >> THEN st ELSE execute_batch(st, rows)

\* a variant of Uncommitted for a connection in autocommit mode: the statements
\* that ran before the failing one stay
Uncommitted_Autocommit(st, done) == execute_batch(st, done)

\* lines 192-220: the table after execute_batch raised at a statement that follows
\* the rows done: conn.commit() is not reached, db_conn() leaves autocommit off, and
\* the connection goes away with its transaction
Uncommitted(st, done) == st

\* lines 239-247: of the rows sharing a key, all but the first by ctid are deleted
RECURSIVE RemoveFrom(_, _, _)
RemoveFrom(st, i, seen) ==
  IF i > Len(st) THEN << >>
  ELSE IF Key(st[i]) \in seen THEN RemoveFrom(st, i + 1, seen)
  ELSE << st[i] >> \o RemoveFrom(st, i + 1, seen \cup {Key(st[i])})

\* a variant of remove_duplicates that keeps the last row of every key
remove_duplicates_KeepsLast(st) ==
  LET last == {i \in 1..Len(st) : \A j \in (i + 1)..Len(st) : Key(st[j]) # Key(st[i])}
  IN  [k \in 1..Cardinality(last) |->
         st[CHOOSE i \in last : Cardinality({j \in last : j <= i}) = k]]

remove_duplicates(st) == RemoveFrom(st, 1, {})

----------------------------------------------------------------------------
(* restore_excel_to_db.py: restore() *)

NoFrame == [columns |-> << >>, rows |-> << >>]

history == << calls, committed, repeated, latest, store0 >>

\* the history of a call of insert_rows_safe(rows) that commits
Commit(rows) ==
  /\ calls' = calls + 1
  /\ committed' = rows
  /\ repeated' = (committed = rows /\ calls > 0)
  /\ latest' =
       {r \in latest : \A i \in 1..Len(rows) : Key(rows[i]) # Key(r)}
         \cup {rows[i] : i \in {k \in 1..Len(rows) :
                                   \A j \in (k + 1)..Len(rows) : Key(rows[j]) # Key(rows[k])}}

\* line 261: remove_duplicates() ran; a failing statement is caught inside it
\* (lines 250-251) and leaves the table as it was
RemoveDuplicatesDone ==
  /\ pc = "start"
  /\ \/ store' = remove_duplicates(store)
     \/ store' = store
  /\ pc' = "loop"
  /\ UNCHANGED << bank_folders, bank, df, normalized, final, outcome, total_source_rows,
                  total_processed_rows, total_inserted_rows, history, helperVars, mergeVars >>

\* lines 236, 253, 263: db_conn() and cur.close() in remove_duplicates, and
\* list_bank_folders() after it, are outside every try; the run ends there, before
\* the DELETE or with what remove_duplicates left
RestoreAborts ==
  /\ pc = "start"
  /\ \/ store' = store
     \/ store' = remove_duplicates(store)
  /\ pc' = "aborted"
  /\ UNCHANGED << bank_folders, bank, df, normalized, final, outcome, total_source_rows,
                  total_processed_rows, total_inserted_rows, history, helperVars, mergeVars >>

\* lines 274-277: the folder holds no workbook
SkipBank ==
  /\ pc = "loop" /\ bank_folders # << >>
  /\ ~Head(bank_folders).has_excel
  /\ bank' = Head(bank_folders).label
  /\ bank_folders' = Tail(bank_folders)
  /\ outcome' = "skipped"
  /\ UNCHANGED << pc, store, df, normalized, final, total_source_rows,
                  total_processed_rows, total_inserted_rows, history, helperVars, mergeVars >>

\* lines 274, 281, 307-308: listing or loading the workbook raises
LoadFails ==
  /\ pc = "loop" /\ bank_folders # << >>
  /\ bank' = Head(bank_folders).label
  /\ bank_folders' = Tail(bank_folders)
  /\ outcome' = "load_failed"
  /\ UNCHANGED << pc, store, df, normalized, final, total_source_rows,
                  total_processed_rows, total_inserted_rows, history, helperVars, mergeVars >>

\* lines 281-299: the workbook is mapped and no row is left
EmptyBank ==
  /\ pc = "loop" /\ bank_folders # << >>
  /\ Head(bank_folders).has_excel
  /\ bank' = Head(bank_folders).label
  /\ df' = load_excel_from_s3(Head(bank_folders).df)
  /\ ~map_columns_raises(df')
  /\ normalized' = NormalizeRows(df', bank')
  /\ final' = map_columns(df', bank')
  /\ final' = << >>
  /\ total_source_rows' = total_source_rows + Len(df'.rows)
  /\ total_processed_rows' = total_processed_rows + Len(final')
  /\ bank_folders' = Tail(bank_folders)
  /\ outcome' = "empty"
  /\ UNCHANGED << pc, store, total_inserted_rows, history, helperVars, mergeVars >>

\* lines 281-305: the workbook is mapped and its rows are committed
InsertBank ==
  /\ pc = "loop" /\ bank_folders # << >>
  /\ Head(bank_folders).has_excel
  /\ bank' = Head(bank_folders).label
  /\ df' = load_excel_from_s3(Head(bank_folders).df)
  /\ ~map_columns_raises(df')
  /\ normalized' = NormalizeRows(df', bank')
  /\ final' = map_columns(df', bank')
  /\ final' # << >>
  /\ total_source_rows' = total_source_rows + Len(df'.rows)
  /\ total_processed_rows' = total_processed_rows + Len(final')
  /\ store0' = store
  /\ store' = insert_rows_safe_store(store, final')
  /\ total_inserted_rows' = total_inserted_rows + insert_rows_safe_count(final')
  /\ Commit(final')
  /\ bank_folders' = Tail(bank_folders)
  /\ outcome' = "inserted"
  /\ UNCHANGED << pc, helperVars, mergeVars >>

\* lines 281-302, 307-308: the workbook is mapped and insert_rows_safe raises, at
\* db_conn() or at one of the statements (map_columns raising is MapFails)
InsertFails ==
  /\ pc = "loop" /\ bank_folders # << >>
  /\ Head(bank_folders).has_excel
  /\ bank' = Head(bank_folders).label
  /\ df' = load_excel_from_s3(Head(bank_folders).df)
  /\ ~map_columns_raises(df')
  /\ normalized' = NormalizeRows(df', bank')
  /\ final' = map_columns(df', bank')
  /\ final' # << >>
  /\ total_source_rows' = total_source_rows + Len(df'.rows)
  /\ total_processed_rows' = total_processed_rows + Len(final')
  /\ store0' = store
  /\ \E k \in 0..(Len(final') - 1) : store' = Uncommitted(store, SubSeq(final', 1, k))
  /\ bank_folders' = Tail(bank_folders)
  /\ outcome' = "insert_failed"
  /\ calls' = calls + 1
  /\ UNCHANGED << pc, total_inserted_rows, committed, repeated, latest,
                  helperVars, mergeVars >>

\* lines 281-291, 307-308: the workbook is loaded and counted, and map_columns
\* raises before anything is processed or written
MapFails ==
  /\ pc = "loop" /\ bank_folders # << >>
  /\ Head(bank_folders).has_excel
  /\ bank' = Head(bank_folders).label
  /\ df' = load_excel_from_s3(Head(bank_folders).df)
  /\ map_columns_raises(df')
  /\ total_source_rows' = total_source_rows + Len(df'.rows)
  /\ bank_folders' = Tail(bank_folders)
  /\ outcome' = "map_failed"
  /\ UNCHANGED << pc, store, normalized, final, total_processed_rows, total_inserted_rows,
                  history, helperVars, mergeVars >>

\* lines 309-312
Summary ==
  /\ pc = "loop" /\ bank_folders = << >>
  /\ pc' = "done"
  /\ UNCHANGED << bank_folders, store, bank, df, normalized, final, outcome, total_source_rows,
                  total_processed_rows, total_inserted_rows, history, helperVars, mergeVars >>

----------------------------------------------------------------------------
(* mergexcel.py: names and tables *)

n_Bank_Name == <<"B", "a", "n", "k", " ", "N", "a", "m", "e">>

n_Branch_Name == <<"B", "r", "a", "n", "c", "h", " ", "N", "a", "m", "e">>

n_IFSC == <<"I", "F", "S", "C">>

n_ADDRESS == <<"A", "D", "D", "R", "E", "S", "S">>

n_CITY == <<"C", "I", "T", "Y">>

n_CITY2 == <<"C", "I", "T", "Y", "2">>

n_STATE == <<"S", "T", "A", "T", "E">>

n_STD_CODE == <<"S", "T", "D", " ", "C", "O", "D", "E">>

n_PHONE == <<"P", "H", "O", "N", "E">>

k_bank_name == <<"b", "a", "n", "k", " ", "n", "a", "m", "e">>

k_branch == <<"b", "r", "a", "n", "c", "h">>

k_office == <<"o", "f", "f", "i", "c", "e">>

k_location == <<"l", "o", "c", "a", "t", "i", "o", "n">>

k_details == <<"d", "e", "t", "a", "i", "l", "s">>

bank_name_variations ==
  << <<"B", "a", "n", "k", " ", "N", "a", "m", "e">>,
     <<"B", "a", "n", "k">>,
     <<"B", "A", "N", "K", " ", "N", "A", "M", "E">>,
     <<"B", "A", "N", "K">>,
     <<"b", "a", "n", "k", " ", "n", "a", "m", "e">>,
     <<"b", "a", "n", "k">>,
     <<"B", "a", "n", "k", "N", "a", "m", "e">>,
     <<"B", "A", "N", "K", "N", "A", "M", "E">> >>

branch_variations ==
  << <<"B", "r", "a", "n", "c", "h", " ", "N", "a", "m", "e">>,
     <<"B", "r", "a", "n", "c", "h">>,
     <<"B", "R", "A", "N", "C", "H", " ", "N", "A", "M", "E">>,
     <<"B", "R", "A", "N", "C", "H">>,
     <<"b", "r", "a", "n", "c", "h", " ", "n", "a", "m", "e">>,
     <<"b", "r", "a", "n", "c", "h">>,
     <<"B", "r", "a", "n", "c", "h", "N", "a", "m", "e">>,
     <<"B", "R", "A", "N", "C", "H", "N", "A", "M", "E">>,
     <<"B", "r", "a", "n", "c", "h", "_", "N", "a", "m", "e">>,
     <<"B", "R", "A", "N", "C", "H", "_", "N", "A", "M", "E">>,
     <<"b", "r", "a", "n", "c", "h", "_", "n", "a", "m", "e">>,
     <<"B", "r", "a", "n", "c", "h", " ", " ", "N", "a", "m", "e">>,
     <<"B", "R", "A", "N", "C", "H", " ", " ", "N", "A", "M", "E">>,
     <<"B", "r", "a", "n", "c", "h", " ", " ", "n", "a", "m", "e">>,
     <<"B", "R", "A", "N", "C", "H", " ", " ", "N", "A", "M", "E">>,
     <<"B", "r", "a", "n", "c", "h", "N", "a", "m", "e">>,
     <<"B", "R", "A", "N", "C", "H", "N", "A", "M", "E">>,
     <<"B", "r", "a", "n", "c", "h", " ", "N", "a", "m", "e">>,
     <<"B", "R", "A", "N", "C", "H", " ", "N", "A", "M", "E">>,
     <<"B", "r", "a", "n", "c", "h", " ", "D", "e", "t", "a", "i", "l", "s">>,
     <<"B", "R", "A", "N", "C", "H", " ", "D", "E", "T", "A", "I", "L", "S">>,
     <<"B", "r", "a", "n", "c", "h", " ", "D", "e", "t", "a", "i", "l", "s">>,
     <<"b", "r", "a", "n", "c", "h", " ", "d", "e", "t", "a", "i", "l", "s">>,
     <<"B", "r", "a", "n", "c", "h", " ", "L", "o", "c", "a", "t", "i", "o", "n">>,
     <<"B", "R", "A", "N", "C", "H", " ", "L", "O", "C", "A", "T", "I", "O", "N">>,
     <<"B", "r", "a", "n", "c", "h", " ", "L", "o", "c", "a", "t", "i", "o", "n">>,
     <<"b", "r", "a", "n", "c", "h", " ", "l", "o", "c", "a", "t", "i", "o", "n">>,
     <<"B", "r", "a", "n", "c", "h", " ", "O", "f", "f", "i", "c", "e">>,
     <<"B", "R", "A", "N", "C", "H", " ", "O", "F", "F", "I", "C", "E">>,
     <<"B", "r", "a", "n", "c", "h", " ", "O", "f", "f", "i", "c", "e">>,
     <<"b", "r", "a", "n", "c", "h", " ", "o", "f", "f", "i", "c", "e">>,
     <<"O", "f", "f", "i", "c", "e", " ", "N", "a", "m", "e">>,
     <<"O", "F", "F", "I", "C", "E", " ", "N", "A", "M", "E">>,
     <<"O", "f", "f", "i", "c", "e", " ", "N", "a", "m", "e">>,
     <<"o", "f", "f", "i", "c", "e", " ", "n", "a", "m", "e">>,
     <<"O", "f", "f", "i", "c", "e">>,
     <<"O", "F", "F", "I", "C", "E">>,
     <<"o", "f", "f", "i", "c", "e">>,
     <<"L", "o", "c", "a", "t", "i", "o", "n">>,
     <<"L", "O", "C", "A", "T", "I", "O", "N">>,
     <<"l", "o", "c", "a", "t", "i", "o", "n">>,
     <<"B", "r", "a", "n", "c", "h", " ", "A", "d", "d", "r", "e", "s", "s">>,
     <<"B", "R", "A", "N", "C", "H", " ", "A", "D", "D", "R", "E", "S", "S">>,
     <<"B", "r", "a", "n", "c", "h", " ", "A", "d", "d", "r", "e", "s", "s">>,
     <<"b", "r", "a", "n", "c", "h", " ", "a", "d", "d", "r", "e", "s", "s">> >>

ifsc_variations ==
  << <<"I", "F", "S", "C">>,
     <<"i", "f", "s", "c">>,
     <<"I", "f", "s", "c">>,
     <<"I", "F", "S", "C", " ", "C", "O", "D", "E">>,
     <<"i", "f", "s", "c", " ", "c", "o", "d", "e">>,
     <<"I", "F", "S", "C", "_", "C", "O", "D", "E">>,
     <<"i", "f", "s", "c", "_", "c", "o", "d", "e">>,
     <<"I", "F", "S", "C", " ", "C", "o", "d", "e">> >>

column_mappings ==
  << [standard_name |-> <<"A", "D", "D", "R", "E", "S", "S">>,
      variations |-> << <<"A", "D", "D", "R", "E", "S", "S">>,
                        <<"A", "d", "d", "r", "e", "s", "s">>,
                        <<"a", "d", "d", "r", "e", "s", "s">>,
                        <<"A", "D", "D", "R">>,
                        <<"A", "d", "d", "r">>,
                        <<"a", "d", "d", "r">> >>],
     [standard_name |-> <<"C", "I", "T", "Y">>,
      variations |-> << <<"C", "I", "T", "Y">>,
                        <<"C", "i", "t", "y">>,
                        <<"c", "i", "t", "y">> >>],
     [standard_name |-> <<"C", "I", "T", "Y", "2">>,
      variations |-> << <<"C", "I", "T", "Y", "2">>,
                        <<"C", "i", "t", "y", "2">>,
                        <<"c", "i", "t", "y", "2">>,
                        <<"C", "I", "T", "Y", " ", "2">>,
                        <<"C", "i", "t", "y", " ", "2">> >>],
     [standard_name |-> <<"S", "T", "A", "T", "E">>,
      variations |-> << <<"S", "T", "A", "T", "E">>,
                        <<"S", "t", "a", "t", "e">>,
                        <<"s", "t", "a", "t", "e">> >>],
     [standard_name |-> <<"S", "T", "D", " ", "C", "O", "D", "E">>,
      variations |-> << <<"S", "T", "D", " ", "C", "O", "D", "E">>,
                        <<"S", "t", "d", " ", "C", "o", "d", "e">>,
                        <<"s", "t", "d", " ", "c", "o", "d", "e">>,
                        <<"S", "T", "D", "C", "O", "D", "E">>,
                        <<"S", "t", "d", "C", "o", "d", "e">>,
                        <<"S", "T", "D", "_", "C", "O", "D", "E">>,
                        <<"s", "t", "d", "_", "c", "o", "d", "e">> >>],
     [standard_name |-> <<"P", "H", "O", "N", "E">>,
      variations |-> << <<"P", "H", "O", "N", "E">>,
                        <<"P", "h", "o", "n", "e">>,
                        <<"p", "h", "o", "n", "e">>,
                        <<"P", "H", "O", "N", "E", " ", "N", "U", "M", "B", "E", "R">>,
                        <<"P", "h", "o", "n", "e", " ", "N", "u", "m", "b", "e", "r">>,
                        <<"p", "h", "o", "n", "e", " ", "n", "u", "m", "b", "e", "r">>,
                        <<"P", "H", "O", "N", "E", "N", "U", "M", "B", "E", "R">>,
                        <<"P", "h", "o", "n", "e", "N", "u", "m", "b", "e", "r">> >>] >>

nan_tokens_branch ==
  << <<"n", "a", "n">>,
     <<"N", "o", "n", "e">>,
     <<"n", "o", "n", "e">>,
     <<"N", "U", "L", "L">>,
     <<"n", "u", "l", "l">> >>

nan_tokens ==
  << <<"n", "a", "n">>,
     <<"N", "o", "n", "e">>,
     <<"n", "o", "n", "e">>,
     <<"N", "U", "L", "L">>,
     <<"n", "u", "l", "l">>,
     <<"N", "a", "T">> >>

\* the characters of column names, by code point
CodePoints ==
  <<" ", "-", ".", "0", "1", "2", "3", "4", "5", "6", "7", "8", "9", "A", "B", "C", "D", "E", "F", "G", "H", "I", "J", "K", "L", "M", "N", "O", "P", "Q", "R", "S", "T", "U", "V", "W", "X", "Y", "Z", "_", "a", "b", "c", "d", "e", "f", "g", "h", "i", "j", "k", "l", "m", "n", "o", "p", "q", "r", "s", "t", "u", "v", "w", "x", "y", "z">>

----------------------------------------------------------------------------
(* mergexcel.py: strings and frames *)

\* sub in s
Contains(s, sub) ==
  \E i \in 0..(Len(s) - Len(sub)) : SubSeq(s, i + 1, i + Len(sub)) = sub

\* the rank of every character in the order of the code points
CodePointOf ==
  [c \in Range(CodePoints) |-> CHOOSE i \in 1..Len(CodePoints) : CodePoints[i] = c]

\* a < b for two str
RECURSIVE LessStr(_, _)
LessStr(a, b) ==
  IF b = << >> THEN FALSE
  ELSE IF a = << >> THEN TRUE
  ELSE IF Head(a) = Head(b) THEN LessStr(Tail(a), Tail(b))
  ELSE CodePointOf[Head(a)] < CodePointOf[Head(b)]

\* sorted(list(S)) for a set of str
RECURSIVE SortedStrs(_)
SortedStrs(S) ==
  IF S = {} THEN << >>
  ELSE LET m == CHOOSE x \in S : \A y \in S \ {x} : LessStr(x, y)
       IN  << m >> \o SortedStrs(S \ {m})

HasColumn(d, name) == name \in Range(d.columns)

\* df.rename(columns={old: new})
RenameColumn(d, old, new) ==
  [columns |-> [i \in 1..Len(d.columns) |-> IF d.columns[i] = old THEN new ELSE d.columns[i]],
   rows |-> d.rows]

\* df[name] = value, for a name that is no column yet
AddColumn(d, name, value) ==
  [columns |-> Append(d.columns, name),
   rows |-> [r \in 1..Len(d.rows) |-> Append(d.rows[r], value)]]

----------------------------------------------------------------------------
(* mergexcel.py: find_column_by_variations, find_branch_name_column_aggressive *)

\* col.lower().strip()
ColumnKey(col) == strip(lower(col))

\* lines 57-74: << the column >>, or << >> for None.  col_map keeps, for every key,
\* the last column that has it; the variations are looked up in their order, and
\* target_name after them
find_column_by_variations(columns, target_name, variations) ==
  LET Lookup(keys, wanted) ==
        LET col_map(k) == columns[Maximum({i \in 1..Len(columns) : keys[i] = k})]
            in_map == Range(keys)
            hits == {v \in 1..Len(wanted) : wanted[v] \in in_map}
        IN  IF hits = {} THEN << >> ELSE << col_map(wanted[Minimum(hits)]) >>
  IN  Lookup([i \in 1..Len(columns) |-> ColumnKey(columns[i])],
             [v \in 1..Len(variations) |-> lower(variations[v])] \o << lower(target_name) >>)

\* lines 105, 114: the cells of column c that are not blank
non_empty_count(d, c) ==
  Cardinality({r \in 1..Len(d.rows) : strip(d.rows[r][c]) # << >>})

\* lines 76-119
find_branch_name_column_aggressive(d) ==
  LET Search(found_col, col_lower) ==
        LET strategy2 ==
              {c \in 1..Len(d.columns) :
                 /\ Contains(col_lower[c], k_branch)
                 /\ col_lower[c] # k_bank_name
                 /\ non_empty_count(d, c) > 0}
            strategy3 ==
              {c \in 1..Len(d.columns) :
                 /\ \E keyword \in {k_office, k_location, k_details} :
                       Contains(col_lower[c], keyword)
                 /\ col_lower[c] # k_bank_name
                 /\ non_empty_count(d, c) > 0}
        IN  IF found_col # << >> THEN found_col
            ELSE IF strategy2 # {} THEN << d.columns[Minimum(strategy2)] >>
            ELSE IF strategy3 # {} THEN << d.columns[Minimum(strategy3)] >>
            ELSE << >>
  IN  Search(find_column_by_variations(d.columns, n_Branch_Name, branch_variations),
             [c \in 1..Len(d.columns) |-> ColumnKey(d.columns[c])])

----------------------------------------------------------------------------
(* mergexcel.py: read_xlsx_from_s3 *)

\* lines 149-156, 199-206, 219-225: the column found is renamed to the standard
\* name; with none found the standard column is added, filled with fill
StandardizeColumn(d, standard_name, variations, fill) ==
  LET Standardized(found_col) ==
        IF found_col # << >> /\ found_col[1] # standard_name
        THEN RenameColumn(d, found_col[1], standard_name)
        ELSE IF ~HasColumn(d, standard_name) THEN AddColumn(d, standard_name, fill)
        ELSE d
  IN  Standardized(find_column_by_variations(d.columns, standard_name, variations))

\* lines 159-195: as above with the aggressive search; when the column found is
\* 'Branch Name' itself the second search (line 185) finds it again and nothing
\* is copied
StandardizeBranchName(d) ==
  LET Standardized(branch_col) ==
        IF branch_col # << >> /\ branch_col[1] # n_Branch_Name
        THEN RenameColumn(d, branch_col[1], n_Branch_Name)
        ELSE IF ~HasColumn(d, n_Branch_Name) THEN AddColumn(d, n_Branch_Name, << >>)
        ELSE d
  IN  Standardized(find_branch_name_column_aggressive(d))

\* lines 218-225
RECURSIVE StandardizeMapped(_, _)
StandardizeMapped(d, i) ==
  IF i > Len(column_mappings) THEN d
  ELSE StandardizeMapped(
         StandardizeColumn(d, column_mappings[i].standard_name,
                           column_mappings[i].variations, << >>),
         i + 1)

\* lines 234-237
CleanBranchName(x) ==
  LET y == IF x # << >> /\ x # << "n", "a", "n" >> THEN strip(x) ELSE << >>
  IN  IF y \in Range(nan_tokens_branch) THEN << >> ELSE y

\* lines 249-251
CleanBankName(x, bank_name) ==
  LET y == strip(x) IN IF y = << >> THEN bank_name ELSE y

\* lines 259-263
CleanCell(x) == IF x \in Range(nan_tokens) THEN << >> ELSE x

\* lines 228-251: the cleaning of a cell of the column name (line 229 for IFSC)
CleanColumn(name, x, bank_name) ==
  CASE name = n_IFSC        -> strip(x)
    [] name = n_Branch_Name -> CleanBranchName(x)
    [] name = n_Bank_Name   -> CleanBankName(x, bank_name)
    [] OTHER                -> x

\* lines 121-277: the frame returned; the count returned with it is the number of
\* rows of the workbook as read (line 139)
read_xlsx_from_s3(raw, bank_name) ==
  LET d0 == [columns |-> [i \in 1..Len(raw.columns) |-> strip(raw.columns[i])],
             rows |-> raw.rows]
      d1 == StandardizeColumn(d0, n_Bank_Name, bank_name_variations, bank_name)
      d2 == StandardizeBranchName(d1)
      d3 == StandardizeColumn(d2, n_IFSC, ifsc_variations, << >>)
      Cleaned(d4) ==
        [columns |-> d4.columns,
         rows |-> [r \in 1..Len(d4.rows) |->
                     [c \in 1..Len(d4.columns) |->
                        CleanCell(CleanColumn(d4.columns[c], d4.rows[r][c], bank_name))]]]
  IN  Cleaned(StandardizeMapped(d3, 1))

\* lines 105, 114, 162, 172, 179, 229, 235-240, 249: whether the call raises.
\* Columns that have the same name after the strip of line 143 or after a rename
\* are selected together, and df[col] is then a frame and not a column: a frame
\* has no .str (lines 105, 114, 162, 172, 179, 240), and apply hands the lambda a
\* whole column, whose truth value raises (lines 229, 235, 249; of a frame without
\* rows apply returns a copy and calls nothing)
read_xlsx_raises(raw, bank_name) ==
  LET Twice(columns, name) ==
        Cardinality({i \in 1..Len(columns) : columns[i] = name}) > 1
      Raises(d1) ==
        LET SearchRaises(col_lower) ==
              LET Stops(keywords) ==
                    {c \in 1..Len(d1.columns) :
                       /\ \E keyword \in keywords : Contains(col_lower[c], keyword)
                       /\ col_lower[c] # k_bank_name
                       /\ \/ Twice(d1.columns, d1.columns[c])
                          \/ non_empty_count(d1, c) > 0}
                  RaisesAt(stops) == Twice(d1.columns, d1.columns[Minimum(stops)])
                  Strategies(strategy2, strategy3) ==
                    IF strategy2 # {} THEN RaisesAt(strategy2)
                    ELSE strategy3 # {} /\ RaisesAt(strategy3)
              IN  Strategies(Stops({k_branch}), Stops({k_office, k_location, k_details}))
            BranchRaises(found_col) ==
              IF found_col # << >> THEN Twice(d1.columns, found_col[1])
              ELSE \/ SearchRaises([c \in 1..Len(d1.columns) |-> ColumnKey(d1.columns[c])])
                   \/ LET branch_col == find_branch_name_column_aggressive(d1)
                          known == {lower(n_Bank_Name), lower(n_IFSC), lower(n_ADDRESS),
                                    lower(n_CITY), lower(n_CITY2), lower(n_STATE),
                                    lower(n_STD_CODE), lower(n_PHONE)}
                      IN  /\ branch_col = << >>
                          /\ \E c \in 1..Len(d1.columns) :
                                /\ lower(d1.columns[c]) \notin known
                                /\ Twice(d1.columns, d1.columns[c])
            CleanRaises(columns) ==
              \/ Twice(columns, n_Branch_Name)
              \/ /\ raw.rows # << >>
                 /\ Twice(columns, n_IFSC) \/ Twice(columns, n_Bank_Name)
        IN  \/ BranchRaises(find_column_by_variations(d1.columns, n_Branch_Name,
                                                      branch_variations))
            \/ CleanRaises(StandardizeColumn(StandardizeBranchName(d1), n_IFSC,
                                             ifsc_variations, << >>).columns)
  IN  Raises(StandardizeColumn(
               [columns |-> [i \in 1..Len(raw.columns) |-> strip(raw.columns[i])],
                rows |-> raw.rows],
               n_Bank_Name, bank_name_variations, bank_name))

original_row_count(raw) == Len(raw.rows)

----------------------------------------------------------------------------
(* mergexcel.py: merge_and_save_xlsx *)

critical_cols == << n_Bank_Name, n_Branch_Name, n_IFSC >>

\* lines 354, 371-373
column_order(columns) ==
  LET InAll(col) == col \in columns
  IN  SelectSeq(critical_cols, InAll) \o SortedStrs(columns \ Range(critical_cols))

\* lines 367-368: df[col] = '' for the columns of added, in their order
RECURSIVE PadFrame(_, _)
PadFrame(d, added) ==
  IF Len(added) = 0 THEN d ELSE PadFrame(AddColumn(d, Head(added), << >>), Tail(added))

\* lines 364-368: the frame after the columns it lacks are added; the loop goes
\* over a set of names, in an order that the hashes of the run decide
Paddings(d, columns) ==
  LET missing_cols == columns \ Range(d.columns)
      Orders == {o \in [1..Cardinality(missing_cols) -> missing_cols] :
                   Range(o) = missing_cols}
  IN  {PadFrame(d, o) : o \in Orders}

\* lines 360-368: the frames of all_dataframes after the second loop
RECURSIVE PaddedFrames(_, _)
PaddedFrames(frames, columns) ==
  IF frames = << >> THEN {<< >>}
  ELSE {<< h >> \o t : h \in Paddings(Head(frames), columns),
                       t \in PaddedFrames(Tail(frames), columns)}

\* a variant of the alignment that keeps only the rows with an IFSC
AlignFrame_RequiresIfsc(d, order) ==
  LET aligned == [r \in 1..Len(d.rows) |->
                    [c \in 1..Len(order) |-> d.rows[r][ColIndex(d.columns, order[c])]]]
      Kept(row) == row[ColIndex(order, n_IFSC)] # << >>
  IN  [columns |-> order, rows |-> SelectSeq(aligned, Kept)]

\* lines 370-375: df[column_order], the columns of the padded frame in the common
\* order
AlignFrame(d, order) ==
  [columns |-> order,
   rows |-> [r \in 1..Len(d.rows) |->
               [c \in 1..Len(order) |-> d.rows[r][ColIndex(d.columns, order[c])]]]]

\* line 395: pd.concat(frames, ignore_index=True, sort=False) of frames that have
\* the same columns
RECURSIVE ConcatRows(_)
ConcatRows(frames) ==
  IF frames = << >> THEN << >> ELSE Head(frames).rows \o ConcatRows(Tail(frames))

\* lines 370-395: the padded frames, aligned and concatenated
MergeFrames(frames, columns) ==
  LET order == column_order(columns)
  IN  [columns |-> order,
       rows |-> ConcatRows([i \in 1..Len(frames) |-> AlignFrame(frames[i], order)])]

\* lines 476-482: the workbook written to S3 holds every row of the merged frame
SavedWorkbook(merged) == merged

NoUpload == [columns |-> << >>, rows |-> << "none" >>]

\* lines 306-322: a workbook is read and standardized
ReadFile ==
  /\ pc = "merge_read" /\ latest_files # << >>
  /\ ~read_xlsx_raises(Head(latest_files).raw, Head(latest_files).bank_name)
  /\ all_dataframes' =
       Append(all_dataframes,
              read_xlsx_from_s3(Head(latest_files).raw, Head(latest_files).bank_name))
  /\ total_input_rows' = total_input_rows + original_row_count(Head(latest_files).raw)
  /\ all_columns' = all_columns \cup Range(all_dataframes'[Len(all_dataframes')].columns)
  /\ read' = Append(read, Head(latest_files).raw)
  /\ frames_read' = all_dataframes'
  /\ latest_files' = Tail(latest_files)
  /\ UNCHANGED << pc, merged_df, total_output_rows, uploaded, restoreVars, helperVars >>

\* lines 311, 341-343: the read raises, at get_object or read_excel for any
\* workbook, or later in read_xlsx_from_s3 for one with colliding column names;
\* nothing of the workbook is counted or kept
ReadFileFails ==
  /\ pc = "merge_read" /\ latest_files # << >>
  /\ latest_files' = Tail(latest_files)
  /\ UNCHANGED << pc, total_input_rows, all_columns, all_dataframes, read, frames_read, merged_df,
                  total_output_rows, uploaded, restoreVars, helperVars >>

\* lines 288-290, 345-347: no workbook was read
NothingToMerge ==
  /\ pc = "merge_read" /\ latest_files = << >> /\ all_dataframes = << >>
  /\ pc' = "merge_returned"
  /\ UNCHANGED << mergeVars, restoreVars, helperVars >>

\* lines 354-397: the second loop pads the frames of all_dataframes in place, the
\* aligned copies are concatenated
MergeAll ==
  /\ pc = "merge_read" /\ latest_files = << >> /\ all_dataframes # << >>
  /\ all_dataframes' \in PaddedFrames(all_dataframes, all_columns)
  /\ merged_df' = MergeFrames(all_dataframes', all_columns)
  /\ total_output_rows' = Len(merged_df'.rows)
  /\ pc' = "merge_verify"
  /\ UNCHANGED << latest_files, total_input_rows, all_columns, read, frames_read,
                  uploaded, restoreVars, helperVars >>

\* a variant of the verification that goes on to save whatever the counts are
VerifyCounts_AlwaysSaves ==
  /\ pc = "merge_verify"
  /\ pc' = "merge_save"
  /\ UNCHANGED << mergeVars, restoreVars, helperVars >>

\* lines 449-466: the run goes on to save only when the counts match
VerifyCounts ==
  /\ pc = "merge_verify"
  /\ pc' = IF total_output_rows # total_input_rows THEN "merge_aborted" ELSE "merge_save"
  /\ UNCHANGED << mergeVars, restoreVars, helperVars >>

\* lines 475-494
SaveMerged ==
  /\ pc = "merge_save"
  /\ uploaded' = SavedWorkbook(merged_df)
  /\ pc' = "merge_saved"
  /\ UNCHANGED << latest_files, total_input_rows, all_columns, all_dataframes, read, frames_read,
                  merged_df, total_output_rows, restoreVars, helperVars >>

\* lines 496-499: writing or uploading raises, and the exception leaves the function
SaveRaises ==
  /\ pc = "merge_save"
  /\ pc' = "merge_raised"
  /\ UNCHANGED << mergeVars, restoreVars, helperVars >>

----------------------------------------------------------------------------
(* Inputs of restore(): workbooks, folders and table contents *)

MaxRows == 3         \* rows of a two-column workbook
MaxWideRows == 2     \* rows of a workbook with three or four columns
MaxBanks == 2        \* folders of one run
MaxStoreRows == 1    \* rows of the table before the run
MaxRunRows == 2      \* rows of a workbook of a run over several folders
MaxColumns == 3      \* columns of a workbook whose columns come in every order
MaxLen == 3          \* characters of a value given to clean_digits
MaxLimit == 2        \* the limit given to clean_digits
MaxBatch == 2        \* rows of a batch given to insert_rows_safe
MaxCalls == 2        \* calls of insert_rows_safe
MaxFiles == 2        \* workbooks of one merge
MaxFileRows == 2     \* rows of a workbook that is merged
MaxTableRows == 3    \* rows of a table without the unique index
MaxLongRows == 1     \* rows of a workbook with values longer than their limit

SeqsUpTo(S, n) == UNION {[1..k -> S] : k \in 0..n}

\* the cells a column of the given (normalized) name may hold: pd.read_excel with
\* dtype=str gives a str or NaN
CellsOf(name) ==
  CASE name = ColumnNames.ifsc      -> {NaN, << "A" >>, << "B" >>}
    [] name = ColumnNames.branch    -> {NaN, << " ", "U+2003" >>, << "x" >>}
    [] name = ColumnNames.address   -> {NaN, << "r" >>}
    [] name = ColumnNames.city      -> {<< " " >>, << "c" >>, << "n", "o", "n", "e" >>}
    [] name = ColumnNames.bank      -> {NaN, << "p" >>, << "q" >>}
    [] name = ColumnNames.phone     -> {<< "1" >>, << "+", "2" >>}
    [] OTHER                        -> {<< "z" >>}

RowsOf(columns) ==
  {row \in [1..Len(columns) -> UNION {CellsOf(columns[i]) : i \in 1..Len(columns)}] :
     \A i \in 1..Len(columns) : row[i] \in CellsOf(columns[i])}

FramesOf(columns, n) ==
  {[columns |-> columns, rows |-> rows] : rows \in SeqsUpTo(RowsOf(columns), n)}

\* the workbooks with the given columns and up to MaxFileRows of the given rows
FramesFrom(columns, rows) ==
  {[columns |-> columns, rows |-> r] : r \in SeqsUpTo(rows, MaxFileRows)}

Labels == {<< "U", "_", "V" >>}

\* a folder and its latest workbook, as stored
Folder(label, frame) == [label |-> label, has_excel |-> TRUE, df |-> frame]

EmptyFolder(label) == [label |-> label, has_excel |-> FALSE, df |-> NoFrame]

\* the folders of a run: with one of the given workbooks, with no workbook, or with
\* a workbook whose columns "IFSC" and "ifsc" get the same name from normalize
FoldersOf(frames) ==
  LET two_ifsc == [columns |-> << << "I", "F", "S", "C" >>, << "i", "f", "s", "c" >> >>,
                   rows |-> << << << "A" >>, << "B" >> >> >>]
  IN  {Folder(l, f) : l \in Labels, f \in frames \cup {two_ifsc}}
        \cup {EmptyFolder(l) : l \in Labels}

\* a row of the table
Record(name, branch, ifsc, phone) ==
  [bank_name |-> name, branch_name |-> branch, ifsc_code |-> ifsc, address |-> << >>,
   city1 |-> << >>, city2 |-> << >>, state |-> << >>, std_code |-> << >>,
   phone |-> phone]

StoredRecords ==
  {Record(<< "p" >>, << >>, << "A" >>, << "1" >>),
   Record(<< "q" >>, << >>, << "A" >>, << "2" >>),
   Record(<< "p" >>, << >>, << "B" >>, << "1" >>),
   Record(<< "q" >>, << >>, << "B" >>, << "2" >>)}

UniqueKeys(st) == \A i, j \in 1..Len(st) : SameKey(st[i], st[j]) => i = j

\* the table has a unique index on (ifsc_code, branch_name): ON CONFLICT names it
Stores == {st \in SeqsUpTo(StoredRecords, MaxStoreRows) : UniqueKeys(st)}

----------------------------------------------------------------------------
(* clean_digits as a step of its own, and insert_rows_safe called directly *)

Pending == << "?" >>

\* clean_digits(val, limit) is called
CleanDigits ==
  /\ pc = "clean_digits"
  /\ cleaned = Pending
  /\ cleaned' = clean_digits(in_val, in_limit)
  /\ UNCHANGED << pc, in_val, in_limit, restoreVars, mergeVars >>

\* insert_rows_safe(rows) is called and commits (lines 192-225); with no rows it
\* returns before connecting (lines 189-190)
InsertRowsSafe(rows) ==
  /\ pc = "insert_rows_safe"
  /\ calls < MaxCalls
  /\ store0' = store
  /\ store' = insert_rows_safe_store(store, rows)
  /\ total_inserted_rows' = total_inserted_rows + insert_rows_safe_count(rows)
  /\ Commit(rows)
  /\ outcome' = "inserted"
  /\ UNCHANGED << pc, bank_folders, bank, df, normalized, final, total_source_rows,
                  total_processed_rows, helperVars, mergeVars >>

\* insert_rows_safe(rows) raises before its commit (lines 192-219), at db_conn()
\* or at one of the statements
InsertRowsSafeRaises(rows) ==
  /\ pc = "insert_rows_safe"
  /\ calls < MaxCalls
  /\ rows # << >>
  /\ store0' = store
  /\ \E k \in 0..(Len(rows) - 1) : store' = Uncommitted(store, SubSeq(rows, 1, k))
  /\ outcome' = "insert_failed"
  /\ calls' = calls + 1
  /\ UNCHANGED << pc, bank_folders, bank, df, normalized, final, total_source_rows,
                  total_processed_rows, total_inserted_rows, committed, repeated,
                  latest, helperVars, mergeVars >>

\* remove_duplicates() is called and its statement commits (lines 236-248)
RemoveDuplicates ==
  /\ pc = "remove_duplicates"
  /\ calls < MaxCalls
  /\ store0' = store
  /\ store' = remove_duplicates(store)
  /\ repeated' = (outcome = "removed")
  /\ calls' = calls + 1
  /\ outcome' = "removed"
  /\ UNCHANGED << pc, bank_folders, bank, df, normalized, final, total_source_rows,
                  total_processed_rows, total_inserted_rows, committed, latest,
                  helperVars, mergeVars >>

\* remove_duplicates() is called and its statement raises: the exception is caught
\* (lines 250-251) and nothing was committed
RemoveDuplicatesFails ==
  /\ pc = "remove_duplicates"
  /\ calls < MaxCalls
  /\ store0' = store
  /\ repeated' = FALSE
  /\ calls' = calls + 1
  /\ outcome' = "remove_failed"
  /\ UNCHANGED << pc, bank_folders, store, bank, df, normalized, final, total_source_rows,
                  total_processed_rows, total_inserted_rows, committed, latest,
                  helperVars, mergeVars >>

----------------------------------------------------------------------------
(* Specifications *)

InitRestore(folders, stores) ==
  /\ pc = "start"
  /\ bank_folders \in folders
  /\ store \in stores
  /\ bank = << >>
  /\ df = NoFrame
  /\ normalized = << >>
  /\ final = << >>
  /\ outcome = "none"
  /\ total_source_rows = 0
  /\ total_processed_rows = 0
  /\ total_inserted_rows = 0
  /\ calls = 0
  /\ committed = << >>
  /\ repeated = FALSE
  /\ latest = Range(store)
  /\ store0 = << >>

InitHelpersIdle ==
  /\ in_val = NaN
  /\ in_limit = 0
  /\ cleaned = Pending

\* restore() does not run
InitRestoreIdle ==
  /\ bank_folders = << >>
  /\ store = << >>
  /\ bank = << >>
  /\ df = NoFrame
  /\ normalized = << >>
  /\ final = << >>
  /\ outcome = "none"
  /\ total_source_rows = 0
  /\ total_processed_rows = 0
  /\ total_inserted_rows = 0
  /\ calls = 0
  /\ committed = << >>
  /\ repeated = FALSE
  /\ latest = Range(store)
  /\ store0 = << >>

\* merge_and_save_xlsx() does not run
InitMergeIdle ==
  /\ latest_files = << >>
  /\ all_dataframes = << >>
  /\ all_columns = {}
  /\ total_input_rows = 0
  /\ merged_df = NoFrame
  /\ total_output_rows = 0
  /\ uploaded = NoUpload
  /\ read = << >>
  /\ frames_read = << >>

Next ==
  \/ RemoveDuplicatesDone
  \/ RestoreAborts
  \/ SkipBank
  \/ LoadFails
  \/ EmptyBank
  \/ InsertBank
  \/ InsertFails
  \/ MapFails
  \/ Summary

\* a run over up to MaxBanks folders: the first with no workbook or with any
\* workbook of up to MaxRunRows rows with the columns ifsc, bank, phone, the later
\* ones with no workbook or with a workbook of two rows; the table is empty, holds
\* one row under the key of a row of the workbooks, or holds two rows that share a
\* key whose ifsc_code is NULL
Init ==
  LET RunFrames ==
        {[columns |-> << ColumnNames.ifsc, ColumnNames.bank, ColumnNames.phone >>, rows |-> rows] :
           rows \in SeqsUpTo({<< << "A" >>, << "p" >>, << "1" >> >>,
                              << << "A" >>, << "q" >>, << "+", "2" >> >>,
                              << << "B" >>, << "p" >>, << "1" >> >>,
                              << << "B" >>, NaN, << "1" >> >>,
                              << NaN, << "p" >>, << "1" >> >>}, MaxRunRows)}
      RunFolders ==
        LET later ==
              {EmptyFolder(<< "W" >>),
               Folder(<< "W" >>,
                      [columns |-> << ColumnNames.ifsc, ColumnNames.bank, ColumnNames.phone >>,
                       rows |-> << << << "A" >>, << "q" >>, << "+", "2" >> >>,
                                   << << "B" >>, NaN, << "1" >> >> >>])}
        IN  {<< >>} \cup
            {<< first >> \o rest :
               first \in FoldersOf(RunFrames), rest \in SeqsUpTo(later, MaxBanks - 1)}
  IN  /\ InitRestore(RunFolders,
                     {<< >>, << Record(<< "p" >>, MAIN_BRANCH, << "A" >>, << "9" >>) >>,
                      << Record(<< "p" >>, << "x" >>, NaN, << "1" >>),
                         Record(<< "q" >>, << "x" >>, NaN, << "2" >>) >>})
      /\ InitHelpersIdle
      /\ InitMergeIdle

Spec == Init /\ [][Next]_vars

\* lines 270-312: the loop is a for loop over a list and every iteration ends, by
\* itself or in the except clause, so a run that can take a step takes one
SpecFair == Spec /\ WF_vars(Next)

\* one folder, every workbook of up to four columns
InitMap ==
  LET MapFrames ==
        FramesOf(<< ColumnNames.ifsc, ColumnNames.branch, ColumnNames.address, ColumnNames.city >>,
                 MaxWideRows)
          \cup FramesOf(<< ColumnNames.ifsc, ColumnNames.address, ColumnNames.city >>, MaxWideRows)
          \cup FramesOf(<< ColumnNames.branch, ColumnNames.ifsc >>, MaxRows)
  IN  /\ InitRestore({<< f >> : f \in FoldersOf(MapFrames)}, {<< >>})
      /\ InitHelpersIdle
      /\ InitMergeIdle

SpecMap == InitMap /\ [][Next]_vars

\* one folder, every workbook with the columns ifsc, branch, address
InitKeys ==
  LET KeyFrames ==
        FramesOf(<< ColumnNames.ifsc, ColumnNames.branch, ColumnNames.address >>, MaxWideRows)
  IN  /\ InitRestore({<< f >> : f \in FoldersOf(KeyFrames)}, {<< >>})
      /\ InitHelpersIdle
      /\ InitMergeIdle

SpecKeys == InitKeys /\ [][Next]_vars

\* one folder, one row, the columns in every order: column i holds the digit i
InitAlias ==
  LET n == ColumnNames
      AliasNames == {n.branch_name, n.branchname, n.branch, n.branchnm, n.ifsc_code, n.ifsc,
                     n.city, n.town, n.remarks}
      DigitOf == << "1", "2", "3", "4", "5", "6", "7", "8", "9" >>
      AliasFrames ==
        {[columns |-> columns, rows |-> << [i \in 1..Len(columns) |-> << DigitOf[i] >>] >>] :
           columns \in {c \in SeqsUpTo(AliasNames, MaxColumns) :
                          \A i, j \in 1..Len(c) : c[i] = c[j] => i = j}}
  IN  /\ InitRestore({<< f >> : f \in FoldersOf(AliasFrames)}, {<< >>})
      /\ InitHelpersIdle
      /\ InitMergeIdle

SpecAlias == InitAlias /\ [][Next]_vars

\* one folder, one row with or without an IFSC, the columns IFSC and a spelling of
\* "branch name": the two words in lower case, capitalized or in upper case,
\* joined by "_", one or two spaces, "-", "." or nothing, with or without a space
\* before and after
InitNames ==
  LET first  == {<< "b", "r", "a", "n", "c", "h" >>, << "B", "r", "a", "n", "c", "h" >>,
                 << "B", "R", "A", "N", "C", "H" >>}
      second == {<< "n", "a", "m", "e" >>, << "N", "a", "m", "e" >>,
                 << "N", "A", "M", "E" >>}
      sep    == {<< "_" >>, << " " >>, << " ", " " >>, << "-" >>, << "." >>, << >>}
      pad    == {<< >>, << " " >>}
      names  == {s \o a \o j \o b \o s : s \in pad, a \in first, j \in sep, b \in second}
      frames == {[columns |-> << << "I", "F", "S", "C" >>, name >>,
                  rows |-> << << ifsc, << "x" >> >> >>] :
                   name \in names, ifsc \in {<< "A" >>, NaN}}
  IN  /\ InitRestore({<< f >> : f \in FoldersOf(frames)}, {<< >>})
      /\ InitHelpersIdle
      /\ InitMergeIdle

SpecNames == InitNames /\ [][Next]_vars

\* one folder, every workbook of up to MaxLongRows rows with the columns ifsc,
\* branch, address, phone and values of one character over the limit of their
\* field: 21 for ifsc_code and phone, 101 for branch_name and address
InitLong ==
  LET Long(c, n) == [i \in 1..n |-> c]
      rows == {<< i, b, a, ph >> :
                 i  \in {NaN, << "A" >>, Long("A", LIMITS.ifsc_code + 1)},
                 b  \in {NaN, << "U+3000" >>, Long("x", LIMITS.branch_name + 1)},
                 a  \in {NaN, << "r" >>, Long("r", LIMITS.address + 1)},
                 ph \in {<< "+", "2" >>, Long("1", LIMITS.phone + 1)}}
      frames == {[columns |-> << ColumnNames.ifsc, ColumnNames.branch, ColumnNames.address,
                                 ColumnNames.phone >>,
                  rows |-> r] : r \in SeqsUpTo(rows, MaxLongRows)}
  IN  /\ InitRestore({<< f >> : f \in FoldersOf(frames)}, {<< >>})
      /\ InitHelpersIdle
      /\ InitMergeIdle

SpecLong == InitLong /\ [][Next]_vars

\* clean_digits on every value of up to MaxLen characters
Chars == {"1", "2", "a", "-", "U+06F1"}

InitDigits ==
  /\ pc = "clean_digits"
  /\ in_val \in SeqsUpTo(Chars, MaxLen) \cup {NaN}
  /\ in_limit \in 0..MaxLimit
  /\ cleaned = Pending
  /\ InitRestoreIdle
  /\ InitMergeIdle

SpecDigits == InitDigits /\ [][CleanDigits]_vars

\* insert_rows_safe called up to MaxCalls times on a table with a unique key
InitUpsert ==
  /\ pc = "insert_rows_safe"
  /\ store \in Stores
  /\ bank_folders = << >>
  /\ bank = << >>
  /\ df = NoFrame
  /\ normalized = << >>
  /\ final = << >>
  /\ outcome = "none"
  /\ total_source_rows = 0
  /\ total_processed_rows = 0
  /\ total_inserted_rows = 0
  /\ calls = 0
  /\ committed = << >>
  /\ repeated = FALSE
  /\ latest = Range(store)
  /\ store0 = << >>
  /\ InitHelpersIdle
  /\ InitMergeIdle

NextUpsert ==
  \E rows \in SeqsUpTo(StoredRecords, MaxBatch) : InsertRowsSafe(rows) \/ InsertRowsSafeRaises(rows)

SpecUpsert == InitUpsert /\ [][NextUpsert]_vars

\* remove_duplicates called up to MaxCalls times on a table of up to MaxTableRows
\* rows, with any rows sharing a key and with a key that is NULL
InitRemove ==
  /\ pc = "remove_duplicates"
  /\ store \in SeqsUpTo(StoredRecords \cup {Record(<< "p" >>, << "x" >>, NaN, << "1" >>)},
                         MaxTableRows)
  /\ bank_folders = << >>
  /\ bank = << >>
  /\ df = NoFrame
  /\ normalized = << >>
  /\ final = << >>
  /\ outcome = "none"
  /\ total_source_rows = 0
  /\ total_processed_rows = 0
  /\ total_inserted_rows = 0
  /\ calls = 0
  /\ committed = << >>
  /\ repeated = FALSE
  /\ latest = {}
  /\ store0 = << >>
  /\ InitHelpersIdle
  /\ InitMergeIdle

SpecRemove == InitRemove /\ [][RemoveDuplicates \/ RemoveDuplicatesFails]_vars

\* the number of rows of a sequence of frames
RECURSIVE RowsIn(_)
RowsIn(frames) ==
  IF frames = << >> THEN 0 ELSE Len(Head(frames).rows) + RowsIn(Tail(frames))

\* the workbooks it reads after the first
LaterWorkbooks ==
  {[columns |-> << << "I", "F", "S", "C" >>, << "B", "r", "a", "n", "c", "h" >> >>,
    rows |-> << << << "A", "1" >>, << " ", "x" >> >> >>],
   [columns |-> << << "i", "f", "s", "c", " ", "c", "o", "d", "e" >>,
                   << "S", "u", "b", " ", "O", "f", "f", "i", "c", "e" >>, << "Z" >> >>,
    rows |-> << << << "B", "1" >>, << "o" >>, << "1" >> >>,
                << << "B", "1" >>, << "o" >>, << "1" >> >> >>],
   [columns |-> << << "R", "e", "m", "a", "r", "k" >> >>, rows |-> << << << >> >> >>]}

\* the folder name of the i-th workbook: P, PP, ...
BankNameOf(i) == [k \in 1..i |-> "P"]

\* up to MaxFiles bank folders, the latest workbook of each: the first is any
\* workbook of up to MaxFileRows rows of one of four column sets, or a workbook
\* of one row with two columns that collide, which read_xlsx_from_s3 raises on;
\* the later ones are of LaterWorkbooks
InitMerge ==
  LET MergeWorkbooks ==
        FramesFrom(<< << "I", "F", "S", "C" >>, << "B", "r", "a", "n", "c", "h" >> >>,
                   {<< << "A", "1" >>, << " ", "x" >> >>,
                    << << >>, << "n", "a", "n" >> >>,
                    << << " ", "A", "2", " " >>, << "y" >> >>})
          \cup FramesFrom(<< << "i", "f", "s", "c", " ", "c", "o", "d", "e" >>,
                             << "S", "u", "b", " ", "O", "f", "f", "i", "c", "e" >>, << "Z" >> >>,
                          {<< << "B", "1" >>, << "o" >>, << "1" >> >>,
                           << << "B", "2" >>, << >>, << "N", "o", "n", "e" >> >>,
                           << << >>, << >>, << >> >>})
          \cup FramesFrom(<< << " ", "B", "a", "n", "k", " " >>, n_Branch_Name >>,
                          {<< << "k" >>, << "m" >> >>,
                           << << >>, << " " >> >>,
                           << << "n", "a", "n" >>, << "n" >> >>})
          \cup FramesFrom(<< << "R", "e", "m", "a", "r", "k" >> >>,
                          {<< << "r" >> >>, << << >> >>})
          \cup {[columns |-> c, rows |-> << << << "A" >>, << "B" >> >> >>] :
                   c \in {<< n_IFSC, << "i", "f", "s", "c" >> >>,
                          << n_Bank_Name, << "B", "A", "N", "K", " ", "N", "A", "M", "E" >> >>,
                          << n_Branch_Name, << "B", "R", "A", "N", "C", "H", " ", "N", "A", "M", "E" >> >>,
                          << << "Z" >>, << " ", "Z" >> >>}}
      MergeRuns ==
        {<< >>} \cup
        {[i \in 1..(1 + Len(rest)) |->
            [bank_name |-> BankNameOf(i), raw |-> IF i = 1 THEN first ELSE rest[i - 1]]] :
           first \in MergeWorkbooks, rest \in SeqsUpTo(LaterWorkbooks, MaxFiles - 1)}
  IN  /\ pc = "merge_read"
      /\ latest_files \in MergeRuns
      /\ all_dataframes = << >>
      /\ all_columns = {}
      /\ total_input_rows = 0
      /\ merged_df = NoFrame
      /\ total_output_rows = 0
      /\ uploaded = NoUpload
      /\ read = << >>
      /\ frames_read = << >>
      /\ InitRestoreIdle
      /\ InitHelpersIdle

NextMerge ==
  \/ ReadFile
  \/ ReadFileFails
  \/ NothingToMerge
  \/ MergeAll
  \/ VerifyCounts
  \/ SaveMerged
  \/ SaveRaises

SpecMerge == InitMerge /\ [][NextMerge]_vars

\* line 449 as a run of up to MaxFiles workbooks of LaterWorkbooks reaches it, and
\* as it would be reached with rows of the merged frame lost on the way: the frames
\* and the input count are those of the two loops, the merged frame is a prefix of
\* their concatenation.  In a run the prefix is the whole of it (lines 354-397 keep
\* every row), so the shorter prefixes are inputs of lines 449-499, not states of
\* a run
InitVerify ==
  LET Frames(r) == [i \in 1..Len(r) |-> read_xlsx_from_s3(r[i], BankNameOf(i))]
      Columns(frames) == UNION {Range(frames[i].columns) : i \in 1..Len(frames)}
      Prefixes(m) ==
        {[columns |-> m.columns, rows |-> SubSeq(m.rows, 1, k)] : k \in 0..Len(m.rows)}
  IN  /\ pc = "merge_verify"
      /\ latest_files = << >>
      /\ read \in SeqsUpTo(LaterWorkbooks, MaxFiles) \ {<< >>}
      /\ frames_read = Frames(read)
      /\ all_columns = Columns(frames_read)
      /\ total_input_rows = RowsIn(read)
      /\ all_dataframes \in PaddedFrames(frames_read, all_columns)
      /\ merged_df \in Prefixes(MergeFrames(all_dataframes, all_columns))
      /\ total_output_rows = Len(merged_df.rows)
      /\ uploaded = NoUpload
      /\ InitRestoreIdle
      /\ InitHelpersIdle

\* merge_and_save_xlsx() from its start, and its lines 449-499 on the inputs of
\* InitVerify
SpecVerify == (InitMerge \/ InitVerify) /\ [][NextMerge]_vars

\* both normalizers: one run of restore() over one folder, or one run of
\* merge_and_save_xlsx()
InitNormalize == InitKeys \/ InitMerge

NextNormalize == Next \/ NextMerge

SpecNormalize == InitNormalize /\ [][NextNormalize]_vars

----------------------------------------------------------------------------
(* Properties *)

\* map_columns ran in the last iteration of restore()'s loop
Mapped == outcome \in {"empty", "inserted", "insert_failed"}

\* merge_and_save_xlsx() is past its verification of the counts
Verified == pc \in {"merge_save", "merge_saved", "merge_raised", "merge_aborted"}

\* merge_and_save_xlsx() has built the merged frame
Merged == pc = "merge_verify" \/ Verified

\* C1: a workbook is put to S3 only when the number of rows of the merged frame
\* equals the sum of the numbers of rows of the workbooks read in the run, and it
\* then holds that many rows; when the two counts differ at the verification, the
\* run stops there with nothing put to S3
C1_UploadOnlyWhenCountsMatch ==
  /\ uploaded # NoUpload =>
       /\ total_output_rows = total_input_rows
       /\ total_input_rows = RowsIn(read)
       /\ Len(uploaded.rows) = RowsIn(read)
  /\ (Verified /\ total_output_rows # total_input_rows) =>
       pc = "merge_aborted" /\ uploaded = NoUpload

\* C1 witness: two workbooks with three rows between them were read, the merged
\* frame has lost a row, and the run has stopped at the verification with nothing
\* put to S3
C1_Witness ==
  /\ pc = "merge_aborted"
  /\ Len(read) = 2
  /\ total_input_rows = 3
\* C3: the merged frame has as many rows as the frames have together that the
\* first loop collected (frames_read, before the second loop pads them); the
\* rows of frame i follow, in their order, the rows of the frames before it; every
\* column of a frame is a column of the merged frame, and a merged row holds the
\* cells of its row, and '' in the columns its frame does not have
C3_ConcatenationWithPadding ==
  Merged =>
    /\ Len(merged_df.rows) = RowsIn(frames_read)
    /\ \A i \in 1..Len(frames_read) :
         LET d == frames_read[i]
             before == RowsIn(SubSeq(frames_read, 1, i - 1))
         IN  /\ Range(d.columns) \subseteq Range(merged_df.columns)
             /\ \A j \in 1..Len(d.rows) :
                  \A c \in 1..Len(merged_df.columns) :
                    merged_df.rows[before + j][c] =
                      IF HasColumn(d, merged_df.columns[c])
                      THEN d.rows[j][ColIndex(d.columns, merged_df.columns[c])]
                      ELSE << >>

\* C3 witness: two frames with rows were merged, the second has a column the first
\* did not have and was padded with, and the second holds a row twice
C3_Witness ==
  /\ Merged
  /\ Len(frames_read) = 2
  /\ Len(frames_read[1].rows) > 0
  /\ Len(frames_read[2].rows) = 2
  /\ frames_read[2].rows[1] = frames_read[2].rows[2]
  /\ ~(Range(frames_read[2].columns) \subseteq Range(frames_read[1].columns))
  /\ Len(all_dataframes[1].columns) > Len(frames_read[1].columns)
  /\ Len(merged_df.rows) = Len(frames_read[1].rows) + 2

\* the k-th smallest element of a set of numbers
Nth(S, k) == CHOOSE x \in S : Cardinality({y \in S : y <= x}) = k

\* C4: every canonical field takes the column of the first alias, in the order of
\* COLUMN_PRIORITY, that is a column of the workbook, whatever the order of the
\* workbook's columns; with no alias among the columns the field is empty and
\* map_columns still returns (bank_name and branch_name then take their fallback)
C4_AliasPriority ==
  Mapped =>
    \A t \in Range(DB_COLUMNS) :
      LET sources == COLUMN_PRIORITY[t]
          present == {i \in 1..Len(sources) : sources[i] \in Range(df.columns)}
      IN  /\ \A i \in present :
                (\A j \in present : i <= j)
                  => \E c \in 1..Len(df.columns) :
                        /\ df.columns[c] = sources[i]
                        /\ normalized[1][t] = df.rows[1][c]
          /\ (present = {} /\ t \notin {"bank_name", "branch_name"})
                => normalized[1][t] = << >>

\* C4 witness: the workbook lists the alias "branch" before the alias "branch_name",
\* and branch_name holds the cell of "branch_name", its second column
C4_Witness ==
  /\ Mapped
  /\ Len(df.columns) >= 2
  /\ df.columns[1] = ColumnNames.branch
  /\ df.columns[2] = ColumnNames.branch_name
  /\ normalized[1].branch_name = << "2" >>
  /\ normalized[1].city1 = << >>

\* the row's cell for a canonical field, cleaned as lines 151-155 clean it: phone
\* and std_code by clean_digits, every other field by truncate
CleanedCell(r, t) ==
  LET src == {c \in 1..Len(df.columns) :
                \E i \in 1..Len(COLUMN_PRIORITY[t]) :
                   /\ COLUMN_PRIORITY[t][i] = df.columns[c]
                   /\ \A j \in 1..(i - 1) : COLUMN_PRIORITY[t][j] \notin Range(df.columns)}
      cell == IF src = {} THEN NaN ELSE df.rows[r][CHOOSE c \in src : TRUE]
  IN  IF t \in {"phone", "std_code"}
        THEN clean_digits(cell, LIMITS[t])
        ELSE truncate(cell, LIMITS[t])

\* C5: branch_name is the first non-blank of the row's branch, address and city1
\* values, in that order, and "MAIN BRANCH" when all three are blank
C5_BranchFallbackChain ==
  Mapped =>
    \A r \in 1..Len(normalized) :
      LET branch  == CleanedCell(r, "branch_name")
          address == CleanedCell(r, "address")
          city1   == CleanedCell(r, "city1")
      IN  normalized[r].branch_name =
            IF branch # << >> THEN branch
            ELSE IF address # << >> THEN address
            ELSE IF city1 # << >> THEN city1
            ELSE MAIN_BRANCH

\* C6: clean_digits returns the digits of the value, in their order, cut to the
\* first limit of them: only digits, at most limit long; nothing for a missing value
C6_DigitsOnly ==
  cleaned # Pending =>
    IF in_val = NaN THEN cleaned = << >>
    ELSE LET at == {i \in 1..Len(in_val) : in_val[i] \in Digits}
         IN  /\ Len(cleaned) = (IF Cardinality(at) < in_limit
                                THEN Cardinality(at) ELSE in_limit)
             /\ Len(cleaned) <= in_limit
             /\ \A k \in 1..Len(cleaned) :
                   cleaned[k] \in Digits /\ cleaned[k] = in_val[Nth(at, k)]

\* C6 witness: a value with a non-digit between its digits and more digits than the
\* limit
C6_Witness ==
  /\ cleaned # Pending
  /\ in_val = << "1", "-", "2" >>
  /\ in_limit = 1
  /\ cleaned = << "1" >>

\* C7: committing the batch that was committed just before leaves the table as it was
C7_IdempotentUpsert == repeated => store = store0

\* C7 witness: a batch of two rows was committed twice in a row, to a table that
\* the first commit changed
C7_Witness ==
  /\ repeated
  /\ Len(committed) = 2
  /\ calls = 2
  /\ store # << >>

\* C8: the table holds one row per key, and it is, field for field, the row
\* committed last with that key
C8_LastWriterWins == Range(store) = latest /\ UniqueKeys(store)

\* C8 witness: the last commit replaced the fields of a row the table held
C8_Witness ==
  /\ outcome = "inserted"
  /\ Len(store) = Len(store0)
  /\ store # store0

\* what restore() prints about a folder: lines 285, 295 and 305
Reported ==
  [source_rows |-> Len(df.rows), processed_rows |-> Len(final),
   inserted |-> Len(committed)]

\* C9: of n records with distinct keys of which m have no ifsc_code, n - m are
\* inserted, and the run reports filtered = m and lost = 0
C9_FilterCounted ==
  (/\ pc = "loop"
   /\ outcome = "inserted"
   /\ \A i, j \in 1..Len(normalized) : Key(normalized[i]) = Key(normalized[j]) => i = j)
    => LET n == Len(normalized)
           m == Cardinality({i \in 1..Len(normalized) : normalized[i].ifsc_code = << >>})
       IN  /\ Len(committed) = n - m
           /\ "filtered" \in DOMAIN Reported
           /\ "lost" \in DOMAIN Reported
           /\ Reported["filtered"] = m
           /\ Reported["lost"] = 0

\* C10: of the rows with an ifsc_code, map_columns returns those that are the first
\* with their key, in their order; so the keys returned are distinct and the rows
\* removed number the sum over the keys of (multiplicity - 1)
C10_DedupKeepsFirst ==
  Mapped =>
    LET valid == SelectSeq(normalized, HasIfsc)
        first == {i \in 1..Len(valid) : \A j \in 1..(i - 1) : Key(valid[j]) # Key(valid[i])}
        keys  == {Key(valid[i]) : i \in 1..Len(valid)}
    IN  /\ Len(final) = Cardinality(first)
        /\ \A k \in 1..Len(final) : final[k] = valid[Nth(first, k)]
        /\ \A i, j \in 1..Len(final) : Key(final[i]) = Key(final[j]) => i = j
        /\ Len(valid) - Len(final) = Len(valid) - Cardinality(keys)

\* C10 witness: two rows with an ifsc_code share a key and differ in their address;
\* the first one is returned
C10_Witness ==
  /\ Mapped
  /\ Len(normalized) = 2
  /\ HasIfsc(normalized[1])
  /\ Key(normalized[1]) = Key(normalized[2])
  /\ normalized[1] # normalized[2]
  /\ final = << normalized[1] >>

\* C11: a run of remove_duplicates that commits leaves, in their order, the rows
\* that are the first of their key (ifsc_code, branch_name) in the table's row
\* order, so the keys left are distinct and a table of distinct keys is left as it
\* was; a second run in a row removes nothing
C11_KeepsFirstPerKey ==
  outcome = "removed" =>
    LET first == {i \in 1..Len(store0) :
                    \A j \in 1..(i - 1) : Key(store0[j]) # Key(store0[i])}
    IN  /\ Len(store) = Cardinality(first)
        /\ \A k \in 1..Len(store) : store[k] = store0[Nth(first, k)]
        /\ UniqueKeys(store)
        /\ UniqueKeys(store0) => store = store0
        /\ repeated => store = store0

\* C11 witness: of three rows the second repeats the key of the first with another
\* phone and is removed, the third has a key of its own and stays
C11_Witness ==
  /\ outcome = "removed"
  /\ Len(store0) = 3
  /\ Key(store0[1]) = Key(store0[2])
  /\ store0[1] # store0[2]
  /\ store = << store0[1], store0[3] >>


\* C12 as stated: every row with no bank name of its own gets the folder's name with
\* "_" replaced by spaces, also when other rows of the workbook have a bank name;
\* the other rows keep their own
C12_BankNamePerRow ==
  Mapped =>
    \A r \in 1..Len(normalized) :
      LET own == CleanedCell(r, "bank_name")
      IN  normalized[r].bank_name =
            IF own = << >>
            THEN Prefix(strip(replace(bank, "_", " ")), LIMITS["bank_name"])
            ELSE own

\* C13 as stated: every row with no city2 of its own gets the city1 of its record;
\* the other rows keep their own
C13_City2FromCity1 ==
  Mapped =>
    \A r \in 1..Len(normalized) :
      LET own == CleanedCell(r, "city2")
      IN  normalized[r].city2 = IF own = << >> THEN normalized[r].city1 ELSE own

\* C14 as stated: no field of a record holds the text nan, none or null, in any
\* letter case
C14_NoAbsenceTokenStored ==
  Mapped =>
    \A r \in 1..Len(normalized) : \A t \in Range(DB_COLUMNS) :
      lower(normalized[r][t]) \notin
        {<< "n", "a", "n" >>, << "n", "o", "n", "e" >>, << "n", "u", "l", "l" >>}

\* C16: a call of insert_rows_safe that raises leaves the table as it was before
\* the call, whatever statement it raised at; a call that returns has committed a
\* row under the key of every record of its batch
C16_AtomicBatch ==
  /\ outcome = "insert_failed" => store = store0
  /\ outcome = "inserted" =>
       \A i \in 1..Len(committed) : \E j \in 1..Len(store) : SameKey(store[j], committed[i])

\* C16 witness: a batch was committed, and the next call raised on a table that
\* holds rows
C16_Witness ==
  /\ outcome = "insert_failed"
  /\ calls = 2
  /\ Len(committed) = 2
  /\ store # << >>
  /\ store = store0

\* C15 as stated: an iteration of restore()'s loop that raises, at the loading,
\* the mapping or the insert, goes on to the next folder and leaves the table and
\* the inserted count as they were; the run gets through the folders that are left
\* and reaches its summary; and the folder is recorded as failed: what restore()
\* keeps from one iteration to the next (lines 266-268) holds a record of the
\* failed folders with the folder in it
C15_FailureIsolatedAndRecorded ==
  /\ [][(outcome' \in {"load_failed", "map_failed", "insert_failed"}
            /\ bank_folders' # bank_folders)
          => /\ pc' = "loop"
             /\ bank_folders' = Tail(bank_folders)
             /\ store' = store
             /\ total_inserted_rows' = total_inserted_rows]_vars
  /\ [](pc = "done" => bank_folders = << >>)
  /\ (outcome \in {"load_failed", "map_failed", "insert_failed"}) ~> (pc = "done")
  /\ [](outcome \in {"load_failed", "map_failed", "insert_failed"} =>
          LET kept == [total_source_rows |-> total_source_rows,
                       total_processed_rows |-> total_processed_rows,
                       total_inserted_rows |-> total_inserted_rows]
          IN  "failed" \in DOMAIN kept /\ bank \in kept["failed"])

\* C17 as stated: column names that differ only in letter case, in whitespace or
\* in punctuation resolve to the same field: every spelling of "branch name" is
\* taken as the branch_name column, and the record has its cell
C17_NamesTolerant ==
  (Mapped /\ Len(df.columns) = 2 /\ Len(df.rows) = 1) =>
    /\ ResolveColumn(df.columns, "branch_name") = << df.columns[2] >>
    /\ normalized[1].branch_name = df.rows[1][2]

\* C18: every field of every record map_columns builds or returns is a str, never
\* a missing value, and is at most as long as LIMITS allows for it; so is
\* branch_name, which lines 159-161 set to None before lines 163-171 fill it
C18_NoNullWithinLimits ==
  Mapped =>
    \A out \in {normalized, final} : \A r \in 1..Len(out) : \A t \in Range(DB_COLUMNS) :
      /\ out[r][t] # NaN
      /\ Len(out[r][t]) <= LIMITS[t]

\* C18 witness: a row with an ifsc of 21 characters, no branch and an address of
\* 101 characters was returned with 20 and 100 of them
C18_Witness ==
  /\ Mapped
  /\ Len(final) = 1
  /\ df.rows[1][2] = NaN
  /\ Len(df.rows[1][1]) = 21
  /\ Len(final[1].ifsc_code) = 20
  /\ final[1].branch_name = [i \in 1..100 |-> "r"]
  /\ Len(final[1].phone) = 20

\* C19: at every point of a run of restore() the rows inserted are at most the
\* rows processed, and these at most the rows of the workbooks; an iteration whose
\* insert_rows_safe returns adds to the inserted rows the number of records
\* map_columns returned, one per key among the records with an ifsc_code
C19_StageCountsOrdered ==
  /\ [](/\ total_inserted_rows <= total_processed_rows
        /\ total_processed_rows <= total_source_rows)
  /\ [][(outcome' = "inserted" /\ bank_folders' # bank_folders)
          => /\ total_inserted_rows' - total_inserted_rows = Len(final')
             /\ total_processed_rows' - total_processed_rows = Len(final')
             /\ Len(final') =
                  Cardinality({Key(normalized'[i]) :
                                 i \in {k \in 1..Len(normalized') : HasIfsc(normalized'[k])}})
             /\ Len(committed') = Len(final')]_vars

\* C19 witness: of four rows in two workbooks three were processed, and the two
\* of the second workbook inserted after the insert of the first had failed
C19_Witness ==
  /\ outcome = "inserted"
  /\ total_source_rows = 4
  /\ total_processed_rows = 3
  /\ total_inserted_rows = 2
  /\ Len(final) = 2
  /\ calls = 2

====
